---------------------------- MODULE Spec2Model ----------------------------
(***************************************************************************)
(* A model of the speech-to-phrase validator:                              *)
(*   - LexiconWrapper (src/src/validator/lexicon_wrapper.py): the lexicon  *)
(*     store with its case-variant probing and its lookup cache;           *)
(*   - StandaloneLexicon (src/src/validator/standalone_lexicon.py) and     *)
(*     SpeechToPhrasePredictor (src/src/validator/predictor.py): the word   *)
(*     confidence predictor and the entity aggregator.                     *)
(* A word is a sequence of one-character strings; a score is an exact      *)
(* rational <<numerator, denominator>>.                                    *)
(***************************************************************************)
EXTENDS Integers, Sequences, FiniteSets, TLC

(***************************************************************************)
(* Characters and the string operations of Python the code relies on.      *)
(***************************************************************************)
LowerLetters == <<"a", "b", "c", "d", "e", "f", "g", "h">>
UpperLetters == <<"A", "B", "C", "D", "E", "F", "G", "H">>

IndexIn(seq, c) == CHOOSE i \in 1..Len(seq) : seq[i] = c

IsLowerLetter(c) == \E i \in 1..Len(LowerLetters) : LowerLetters[i] = c
IsUpperLetter(c) == \E i \in 1..Len(UpperLetters) : UpperLetters[i] = c

\* str.lower() on one character
LowerChar(c) == IF IsUpperLetter(c) THEN LowerLetters[IndexIn(UpperLetters, c)] ELSE c
\* str.upper() on one character
UpperChar(c) == IF IsLowerLetter(c) THEN UpperLetters[IndexIn(LowerLetters, c)] ELSE c

Lower(w) == [i \in 1..Len(w) |-> LowerChar(w[i])]
Upper(w) == [i \in 1..Len(w) |-> UpperChar(w[i])]
\* str.casefold(): on the ASCII letters of the model it lowercases
Casefold(w) == [i \in 1..Len(w) |-> LowerChar(w[i])]

\* the characters the pattern [_\-\s] matches
Separators == {"_", "-", " "}
\* the characters str.split() and the pattern \s split on
Whitespace == {" "}

\* re.split(r'[seps]+', s): the pieces between maximal runs of separator
\* characters, the empty pieces at the two ends included
RECURSIVE SplitRuns(_, _, _, _)
SplitRuns(s, seps, cur, inRun) ==
    IF s = <<>> THEN <<cur>>
    ELSE IF Head(s) \in seps
         THEN IF inRun THEN SplitRuns(Tail(s), seps, cur, TRUE)
              ELSE <<cur>> \o SplitRuns(Tail(s), seps, <<>>, TRUE)
         ELSE SplitRuns(Tail(s), seps, Append(cur, Head(s)), FALSE)

ReSplit(s, seps) == SplitRuns(s, seps, <<>>, FALSE)

\* re.sub(r'[seps]+', '', s): s without its separator characters
RECURSIVE ReSubEmpty(_, _)
ReSubEmpty(s, seps) ==
    IF s = <<>> THEN <<>>
    ELSE IF Head(s) \in seps THEN ReSubEmpty(Tail(s), seps)
         ELSE <<Head(s)>> \o ReSubEmpty(Tail(s), seps)

\* [w for w in words if w]
RECURSIVE NonEmpty(_)
NonEmpty(ws) ==
    IF ws = <<>> THEN <<>>
    ELSE IF Head(ws) = <<>> THEN NonEmpty(Tail(ws))
         ELSE <<Head(ws)>> \o NonEmpty(Tail(ws))

\* str.split(): the non-empty pieces between runs of whitespace
RECURSIVE StrSplitFrom(_, _)
StrSplitFrom(s, cur) ==
    IF s = <<>> THEN (IF cur = <<>> THEN <<>> ELSE <<cur>>)
    ELSE IF Head(s) \in Whitespace
         THEN (IF cur = <<>> THEN <<>> ELSE <<cur>>) \o StrSplitFrom(Tail(s), <<>>)
         ELSE StrSplitFrom(Tail(s), Append(cur, Head(s)))

StrSplit(s) == StrSplitFrom(s, <<>>)

\* str.replace(old, new) for single characters
Replace(s, old, new) == [i \in 1..Len(s) |-> IF s[i] = old THEN new ELSE s[i]]

(***************************************************************************)
(* Exact rationals <<n, d>> with d > 0, in lowest terms.                   *)
(***************************************************************************)
RECURSIVE Gcd(_, _)
Gcd(a, b) == IF b = 0 THEN a ELSE Gcd(b, a % b)

Abs(n) == IF n < 0 THEN -n ELSE n

Rat(n, d) == LET g == Gcd(Abs(n), d) IN <<n \div g, d \div g>>
RatAdd(p, q) == Rat(p[1] * q[2] + q[1] * p[2], p[2] * q[2])
RatMul(p, q) == Rat(p[1] * q[1], p[2] * q[2])
RatDivInt(p, k) == Rat(p[1], p[2] * k)
RatLe(p, q) == p[1] * q[2] <= q[1] * p[2]
RatLt(p, q) == p[1] * q[2] < q[1] * p[2]
RatMin(p, q) == IF RatLe(p, q) THEN p ELSE q
RatMax(p, q) == IF RatLe(p, q) THEN q ELSE p
Zero == <<0, 1>>
One == <<1, 1>>


(***************************************************************************)
(* Bounds of the model.                                                    *)
(***************************************************************************)
\* most lines of a text lexicon file
MaxLines == 2
\* most rows of a lexicon database table
MaxRows == 2

(***************************************************************************)
(* Similarity (Levenshtein distance by dynamic programming).               *)
(***************************************************************************)
Min2(a, b) == IF a <= b THEN a ELSE b
Min3(a, b, c) == Min2(a, Min2(b, c))
Max2(a, b) == IF a >= b THEN a ELSE b

\* row 0 of the distance matrix: 0, 1, ..., len(word2)
FirstRow(word2) == [j \in 1..(Len(word2) + 1) |-> j - 1]

\* the inner loop of LexiconWrapper._calculate_similarity: row i of dp, filled
\* from left to right; prev is row i - 1, cur the entries 0..j-1 of row i
RECURSIVE WrapperFillRow(_, _, _, _)
WrapperFillRow(prev, cur, char1, word2) ==
    IF Len(cur) = Len(word2) + 1 THEN cur
    ELSE LET j == Len(cur)
             entry == IF char1 = word2[j] THEN prev[j]
                      ELSE 1 + Min3(prev[j + 1], cur[j], prev[j])
         IN WrapperFillRow(prev, Append(cur, entry), char1, word2)

\* the outer loop: rows i..len(word1), the last row returned
RECURSIVE WrapperRows(_, _, _, _)
WrapperRows(prev, i, word1, word2) ==
    IF i > Len(word1) THEN prev
    ELSE WrapperRows(WrapperFillRow(prev, <<i>>, word1[i], word2), i + 1, word1, word2)

\* the matrix dp of LexiconWrapper._calculate_similarity, entry [len1][len2]
WrapperDistance(word1, word2) ==
    WrapperRows(FirstRow(word2), 1, word1, word2)[Len(word2) + 1]

\* a similarity that divides the distance by the length of the first word
WrapperSimilarityOverFirst(word1, word2) ==
    IF Len(word1) = 0 THEN (IF Len(word2) > 0 THEN Zero ELSE One)
    ELSE IF Len(word2) = 0 THEN Zero
    ELSE Rat(Len(word1) - WrapperDistance(word1, word2), Len(word1))

\* LexiconWrapper._calculate_similarity
WrapperSimilarity(word1, word2) ==
    IF Len(word1) = 0 THEN (IF Len(word2) > 0 THEN Zero ELSE One)
    ELSE IF Len(word2) = 0 THEN Zero
    ELSE LET max_len == Max2(Len(word1), Len(word2))
         IN Rat(max_len - WrapperDistance(word1, word2), max_len)

\* similar_words.sort(key=lambda x: x[1], reverse=True): a stable sort, so
\* pairs of equal score keep the order in which they were appended
RECURSIVE InsertByScore(_, _)
InsertByScore(sorted, pair) ==
    IF sorted = <<>> THEN <<pair>>
    ELSE IF RatLt(Head(sorted)[2], pair[2]) THEN <<pair>> \o sorted
         ELSE <<Head(sorted)>> \o InsertByScore(Tail(sorted), pair)

RECURSIVE SortByScoreDesc(_)
SortByScoreDesc(pairs) ==
    IF pairs = <<>> THEN <<>>
    ELSE InsertByScore(SortByScoreDesc(SubSeq(pairs, 1, Len(pairs) - 1)),
                       pairs[Len(pairs)])

\* find_similar_words(..., max_results: int = 5)
DefaultMaxResults == 5

\* seq[:n]
Take(seq, n) == SubSeq(seq, 1, Min2(n, Len(seq)))

\* the orders in which a set can be enumerated
Enumerations(S) ==
    {f \in [1..Cardinality(S) -> S] : \A i, j \in 1..Cardinality(S) : f[i] = f[j] => i = j}

(***************************************************************************)
(* LexiconWrapper: the lexicon source.                                     *)
(* A text lexicon is a sequence of lines, a line a sequence of characters. *)
(* A database is a set of rows (word, phonemes, pron_order) of the table   *)
(* word_phonemes; phonemes is the text of the pronunciation.               *)
(***************************************************************************)
\* the lines a text lexicon of the model is made of
LineUniverse ==
    { <<"a", "b", " ", "k", " ", "a">>,       \* ab k a
      <<"a", "b", " ", "g">>,                 \* ab g      (a second pronunciation)
      <<"A", "b", " ", "e">>,                 \* Ab e      (a title-case entry)
      <<"a", "b", "d">>,                      \* abd       (a word and no phonemes)
      <<"#", "a", "b", " ", "d">>,            \* a comment
      <<" ">> }                               \* a blank line

\* the rows a database of the model is made of
RowUniverse ==
    { [word |-> <<"a", "b">>, phonemes |-> <<"k", " ", "a">>, pron_order |-> 0],
      [word |-> <<"a", "b">>, phonemes |-> <<"g">>, pron_order |-> 1],
      [word |-> <<"A", "b">>, phonemes |-> <<"e">>, pron_order |-> 0],
      [word |-> <<"A", "B">>, phonemes |-> <<"f">>, pron_order |-> 0],
      [word |-> <<"a", "b", "d">>, phonemes |-> <<"c", " ", "d">>, pron_order |-> 1],
      [word |-> <<"a", "b", "d">>, phonemes |-> <<"b">>, pron_order |-> 0] }

\* the words the callers ask about
WrapperQueries ==
    { <<"a", "b">>, <<"A", "b">>, <<"a", "B">>, <<"a", "b", "d">>, <<"a", "b", "e">> }

TextFiles ==
    UNION {[1..n -> LineUniverse] : n \in 0..MaxLines}

Databases ==
    {rows \in SUBSET RowUniverse : Cardinality(rows) <= MaxRows}

VARIABLES
    lexicon_kind,          \* "text": lexicon_db_path ends in .txt and exists;
                           \* "db": it is an SQLite database; "none": it does not exist
    text_file,             \* the lines of the text lexicon
    db_rows,               \* the rows of table word_phonemes
    cache,                 \* LexiconWrapper._cache
    word_set,              \* LexiconWrapper._word_set: [loaded, words], loaded = FALSE is None
    text_pronunciations,   \* LexiconWrapper._text_pronunciations
    wrapper_result         \* the last call on the wrapper and what it returned

wrapperVars ==
    <<lexicon_kind, text_file, db_rows, cache, word_set, text_pronunciations,
      wrapper_result>>

\* StandaloneLexicon over the model directory and the predictor that uses it
VARIABLES
    lexicon,               \* the rows of table lexicon, in rowid order
    g2p_available,         \* StandaloneLexicon._g2p_available: g2p.fst exists
    db_ok,                 \* queries on lexicon.db succeed (FALSE: they raise)
    word_cache,            \* StandaloneLexicon._word_cache
    g2p_cache,             \* StandaloneLexicon._g2p_cache
    initialized,           \* SpeechToPhrasePredictor.is_initialized()
    prediction             \* the last call on the predictor and what it returned

predictorVars ==
    <<lexicon, g2p_available, db_ok, word_cache, g2p_cache, initialized, prediction>>

\* an entity name and what the two tokenizers made of it
VARIABLES
    tokenized              \* [name, components_done, components, words_done, words]

\* SpeechToPhraseValidator; its LexiconWrapper is the wrapper of wrapperVars
VARIABLES
    models,                \* ModelManager._models: model id -> lexicon source
    current_model,         \* SpeechToPhraseValidator._current_model, its id ("none": None)
    current_lexicon,       \* _current_lexicon.model_info, its id ("none": no wrapper)
    validation             \* the last call on the validator and what it returned

validatorVars == <<tokenized, models, current_model, current_lexicon, validation>>

\* two callers of one LexiconWrapper, the standalone similarity ranker called
\* directly, and the pure functions applied to drawn arguments
VARIABLES
    loading,               \* the caller building the word set and the caller asking
    ranked,                \* the last find_similar_words call and what it returned
    applied                \* the last function applied, its arguments and its value

callerVars == <<loading, ranked, applied>>

\* the predictor singleton of predictor.py and the model directory
VARIABLES
    predictor_instance,    \* _predictor_instance: "none", or is it initialized
    model_files,           \* the files of the model directory of the downloader
    getting,               \* the coroutines calling get_predictor
    download               \* the download_model call and what it did
serviceVars == <<predictor_instance, model_files, getting, download>>

\* a dictionary as a function; d[k] = v added or overwritten
Put(d, k, v) == [x \in DOMAIN d \cup {k} |-> IF x = k THEN v ELSE d[x]]
EmptyDict == [x \in {} |-> <<>>]

\* the wrapper's own state, as LexiconWrapper.__init__ leaves it
FreshWrapper ==
    [cache |-> EmptyDict,
     word_set |-> [loaded |-> FALSE, words |-> {}],
     text_pronunciations |-> EmptyDict]

ThisWrapper ==
    [cache |-> cache, word_set |-> word_set, text_pronunciations |-> text_pronunciations]

\* str.strip()
RECURSIVE LStrip(_)
LStrip(s) == IF s # <<>> /\ Head(s) \in Whitespace THEN LStrip(Tail(s)) ELSE s
RECURSIVE RStrip(_)
RStrip(s) ==
    IF s # <<>> /\ s[Len(s)] \in Whitespace THEN RStrip(SubSeq(s, 1, Len(s) - 1)) ELSE s
Strip(s) == RStrip(LStrip(s))

\* LexiconWrapper._load_from_text_file: the loop over the lines, from line i on
RECURSIVE LoadLines(_, _, _, _)
LoadLines(lines, i, words, prons) ==
    IF i > Len(lines) THEN [words |-> words, prons |-> prons]
    ELSE LET line == Strip(lines[i])
             parts == StrSplit(line)
         IN IF line # <<>> /\ Head(line) # "#" /\ parts # <<>>
            THEN LET word == parts[1]
                     phones == Tail(parts)
                     old == IF word \in DOMAIN prons THEN prons[word] ELSE <<>>
                 IN LoadLines(lines, i + 1, words \cup {word},
                              Put(prons, word, Append(old, phones)))
            ELSE LoadLines(lines, i + 1, words, prons)

LoadFromTextFile(st) ==
    LET r == LoadLines(text_file, 1, {}, st.text_pronunciations)
    IN [st EXCEPT !.word_set = [loaded |-> TRUE, words |-> r.words],
                  !.text_pronunciations = r.prons]

\* LexiconWrapper._load_from_database: SELECT DISTINCT word FROM word_phonemes
LoadFromDatabase(st) ==
    [st EXCEPT !.word_set = [loaded |-> TRUE, words |-> {r.word : r \in db_rows}]]

\* LexiconWrapper._load_word_set
LoadWordSet(st) ==
    IF lexicon_kind = "text" THEN LoadFromTextFile(st)
    ELSE IF lexicon_kind = "db" THEN LoadFromDatabase(st)
    ELSE [st EXCEPT !.word_set = [loaded |-> TRUE, words |-> {}]]

\* if self._word_set is None: self._load_word_set()
EnsureWordSet(st) == IF st.word_set.loaded THEN st ELSE LoadWordSet(st)

\* LexiconWrapper._word_variations
WordVariations(word) ==
    <<word>>
    \o (IF Lower(word) # word THEN <<Lower(word)>> ELSE <<>>)
    \o (IF Casefold(word) # Lower(word) THEN <<Casefold(word)>> ELSE <<>>)
    \o (IF Upper(word) # word THEN <<Upper(word)>> ELSE <<>>)


\* SELECT phonemes FROM word_phonemes WHERE word = ? ORDER BY pron_order,
\* each row's text split into phonemes
RECURSIVE RowsInOrder(_)
RowsInOrder(rows) ==
    IF rows = {} THEN <<>>
    ELSE LET first == CHOOSE r \in rows : \A q \in rows : r.pron_order <= q.pron_order
         IN <<StrSplit(first.phonemes)>> \o RowsInOrder(rows \ {first})

\* SubSeq(s, 1, Len(p)) = p
IsPrefix(p, s) == Len(p) <= Len(s) /\ SubSeq(s, 1, Len(p)) = p

\* mutant: the query matches by prefix (WHERE word LIKE 'word%')
DbPronunciationsPrefix(word_var) ==
    RowsInOrder({r \in db_rows : IsPrefix(word_var, r.word)})

DbPronunciations(word_var) == RowsInOrder({r \in db_rows : r.word = word_var})

\* lookup, second loop: the first variation with a cached value other than None
RECURSIVE CachedVariation(_, _, _)
CachedVariation(st, word_vars, i) ==
    IF i > Len(word_vars) THEN 0
    ELSE IF word_vars[i] \in DOMAIN st.cache THEN i
    ELSE CachedVariation(st, word_vars, i + 1)

\* lookup, third loop: the first variation that is a key of _text_pronunciations
RECURSIVE TextVariation(_, _, _)
TextVariation(st, word_vars, i) ==
    IF i > Len(word_vars) THEN 0
    ELSE IF word_vars[i] \in DOMAIN st.text_pronunciations
            /\ st.text_pronunciations[word_vars[i]] # <<>> THEN i
    ELSE TextVariation(st, word_vars, i + 1)

\* lookup, fourth loop: the first variation with rows in the database; the
\* connection to a text file raises on every query, and there is no
\* connection when the file does not exist
RECURSIVE DbVariation(_, _)
DbVariation(word_vars, i) ==
    IF lexicon_kind # "db" \/ i > Len(word_vars) THEN 0
    ELSE IF DbPronunciations(word_vars[i]) # <<>> THEN i
    ELSE DbVariation(word_vars, i + 1)

\* LexiconWrapper.lookup
Lookup(st, word) ==
    IF word \in DOMAIN st.cache THEN [result |-> st.cache[word], st |-> st]
    ELSE
      LET word_vars == WordVariations(word)
          c == CachedVariation(st, word_vars, 1)
          x == TextVariation(st, word_vars, 1)
          d == DbVariation(word_vars, 1)
      IN IF c # 0
         THEN [result |-> st.cache[word_vars[c]],
               st |-> [st EXCEPT !.cache = Put(st.cache, word, st.cache[word_vars[c]])]]
         ELSE IF x # 0
         THEN [result |-> st.text_pronunciations[word_vars[x]],
               st |-> [st EXCEPT
                          !.cache = Put(st.cache, word, st.text_pronunciations[word_vars[x]])]]
         ELSE IF d # 0
         THEN [result |-> DbPronunciations(word_vars[d]),
               st |-> [st EXCEPT
                          !.cache = Put(Put(st.cache, word_vars[d], DbPronunciations(word_vars[d])),
                                        word, DbPronunciations(word_vars[d]))]]
         ELSE [result |-> <<>>, st |-> [st EXCEPT !.cache = Put(st.cache, word, <<>>)]]

\* LexiconWrapper.exists
Exists(st, word) ==
    LET s == EnsureWordSet(st)
        word_vars == WordVariations(word)
    IN [result |-> \E i \in 1..Len(word_vars) : word_vars[i] \in s.word_set.words,
        st |-> s]

\* find_similar_words, the loop over the known words in the order of iteration
RECURSIVE WrapperCandidates(_, _, _)
WrapperCandidates(word_lower, order, i) ==
    IF i > Len(order) THEN <<>>
    ELSE LET known_word == order[i]
             score == WrapperSimilarity(word_lower, Lower(known_word))
         IN (IF known_word # word_lower /\ RatLt(<<1, 2>>, score)
             THEN <<<<known_word, score>>>> ELSE <<>>)
            \o WrapperCandidates(word_lower, order, i + 1)

\* LexiconWrapper.find_similar_words; order is the order in which the set
\* _word_set is iterated
WrapperFindSimilarWords(st, word, max_results, order) ==
    LET s == EnsureWordSet(st)
    IN [result |-> Take(SortByScoreDesc(WrapperCandidates(Lower(word), order, 1)), max_results),
        st |-> s]

\* LexiconWrapper.get_statistics, total_words
GetStatistics(st) ==
    LET s == EnsureWordSet(st)
    IN [result |-> Cardinality(s.word_set.words), st |-> s]


(***************************************************************************)
(* The calls on one LexiconWrapper.                                        *)
(***************************************************************************)
NoCall ==
    [op |-> "none", word |-> <<>>, found |-> FALSE, prons |-> <<>>,
     similar |-> <<>>, total |-> 0]

SetWrapper(st) ==
    /\ cache' = st.cache
    /\ word_set' = st.word_set
    /\ text_pronunciations' = st.text_pronunciations

ExistsCall ==
    \E word \in WrapperQueries :
        LET r == Exists(ThisWrapper, word)
        IN /\ SetWrapper(r.st)
           /\ wrapper_result' = [NoCall EXCEPT !.op = "exists", !.word = word,
                                               !.found = r.result]
           /\ UNCHANGED <<lexicon_kind, text_file, db_rows, predictorVars, validatorVars, callerVars, serviceVars>>

LookupCall ==
    \E word \in WrapperQueries :
        LET r == Lookup(ThisWrapper, word)
        IN /\ SetWrapper(r.st)
           /\ wrapper_result' = [NoCall EXCEPT !.op = "lookup", !.word = word,
                                               !.prons = r.result]
           /\ UNCHANGED <<lexicon_kind, text_file, db_rows, predictorVars, validatorVars, callerVars, serviceVars>>

FindSimilarWordsCall ==
    \E word \in WrapperQueries :
        \E order \in Enumerations(EnsureWordSet(ThisWrapper).word_set.words) :
            LET r == WrapperFindSimilarWords(ThisWrapper, word, DefaultMaxResults, order)
            IN /\ SetWrapper(r.st)
               /\ wrapper_result' = [NoCall EXCEPT !.op = "find_similar_words",
                                                   !.word = word, !.similar = r.result]
               /\ UNCHANGED <<lexicon_kind, text_file, db_rows, predictorVars, validatorVars, callerVars, serviceVars>>

GetStatisticsCall ==
    LET r == GetStatistics(ThisWrapper)
    IN /\ SetWrapper(r.st)
       /\ wrapper_result' = [NoCall EXCEPT !.op = "get_statistics", !.total = r.result]
       /\ UNCHANGED <<lexicon_kind, text_file, db_rows, predictorVars, validatorVars, callerVars, serviceVars>>

\* a wrapper just constructed over a text lexicon, a database or a missing file
WrapperInit ==
    /\ lexicon_kind \in {"text", "db", "none"}
    /\ text_file \in (IF lexicon_kind = "text" THEN TextFiles ELSE {<<>>})
    /\ db_rows \in (IF lexicon_kind = "db" THEN Databases ELSE {{}})
    /\ cache = FreshWrapper.cache
    /\ word_set = FreshWrapper.word_set
    /\ text_pronunciations = FreshWrapper.text_pronunciations
    /\ wrapper_result = NoCall

WrapperNext ==
    \/ ExistsCall
    \/ LookupCall
    \/ FindSimilarWordsCall
    \/ GetStatisticsCall

(***************************************************************************)
(* What the source stores, read off the source itself.                     *)
(***************************************************************************)
\* the entries of a text lexicon: its lines that are neither blank nor a comment
RECURSIVE TextEntries(_)
TextEntries(lines) ==
    IF lines = <<>> THEN <<>>
    ELSE LET line == Strip(Head(lines))
         IN (IF line = <<>> \/ Head(line) = "#" THEN <<>> ELSE <<StrSplit(line)>>)
            \o TextEntries(Tail(lines))

RECURSIVE EntryPronunciations(_, _)
EntryPronunciations(entries, w) ==
    IF entries = <<>> THEN <<>>
    ELSE (IF Head(entries)[1] = w THEN <<Tail(Head(entries))>> ELSE <<>>)
         \o EntryPronunciations(Tail(entries), w)

StoredWords ==
    IF lexicon_kind = "text"
    THEN {TextEntries(text_file)[i][1] : i \in 1..Len(TextEntries(text_file))}
    ELSE {r.word : r \in db_rows}

StoredPronunciations(w) ==
    IF lexicon_kind = "text" THEN EntryPronunciations(TextEntries(text_file), w)
    ELSE RowsInOrder({r \in db_rows : r.word = w})

\* q and w differ at most in the case of their letters
IsCaseVariant(q, w) == Lower(q) = Lower(w)

NoVariantStored(q) == \A w \in StoredWords : ~IsCaseVariant(q, w)

(***************************************************************************)
(* C1: for every word w stored in the source and every case variant q of   *)
(* w, exists(q) is true and lookup(q) returns the pronunciation list       *)
(* stored for w, in stored order (when several case variants of q are      *)
(* stored, the list of one of them).                                       *)
(***************************************************************************)
C1_CaseInsensitiveLookup ==
    LET q == wrapper_result.word
    IN (\E w \in StoredWords : IsCaseVariant(q, w)) =>
           /\ wrapper_result.op = "exists" => wrapper_result.found
           /\ wrapper_result.op = "lookup" =>
                  \E w \in StoredWords :
                      /\ IsCaseVariant(q, w)
                      /\ wrapper_result.prons = StoredPronunciations(w)

(***************************************************************************)
(* C2: a word of which no case variant is stored is not known: in every    *)
(* reachable state of the wrapper (word set loaded or not, whatever the    *)
(* cache holds) exists answers false and lookup answers the empty list.    *)
(***************************************************************************)
C2_AbsentWordIsAMiss ==
    \A q \in WrapperQueries :
        NoVariantStored(q) =>
            /\ ~Exists(ThisWrapper, q).result
            /\ Lookup(ThisWrapper, q).result = <<>>

\* an absent word has been looked up and cached, next to a loaded word set
\* of a source that stores other words
C2_Witness ==
    /\ wrapper_result.op = "lookup"
    /\ NoVariantStored(wrapper_result.word)
    /\ wrapper_result.word \in DOMAIN cache
    /\ wrapper_result.prons = <<>>
    /\ word_set.loaded
    /\ word_set.words # {}

(***************************************************************************)
(* C3: a cached lookup result is a pure function of the word: after any    *)
(* sequence of exists, lookup, find_similar_words and get_statistics       *)
(* calls, lookup(w) returns what a freshly constructed wrapper over the    *)
(* same source returns for w.                                              *)
(***************************************************************************)
C3_LookupIsPure ==
    \A q \in WrapperQueries :
        Lookup(ThisWrapper, q).result = Lookup(FreshWrapper, q).result

(***************************************************************************)
(* StandaloneLexicon: table lexicon(word, pronunciation) of lexicon.db,    *)
(* the optional G2P artifact, and the two caches.                          *)
(***************************************************************************)
\* most rows of table lexicon
MaxEntries == 2

\* the rows table lexicon of the model is made of
EntryUniverse ==
    { [word |-> <<"a", "b", "c">>, pronunciation |-> <<"a", " ", "b", " ", "k">>],
      [word |-> <<"A", "b", "c">>, pronunciation |-> <<"f">>],
      [word |-> <<"a", "b", "d">>, pronunciation |-> <<"d">>],
      [word |-> <<"a", "b", "c", "d", "e", "f">>, pronunciation |-> <<"g">>] }

\* the tables: at most MaxEntries distinct rows, in rowid order
LexiconTables ==
    UNION {{f \in [1..n -> EntryUniverse] : \A i, j \in 1..n : f[i] = f[j] => i = j}
           : n \in 0..MaxEntries}

ThisLexicon == [word_cache |-> word_cache, g2p_cache |-> g2p_cache]

\* StandaloneLexicon.normalize_word
NormalizeWord(word) == ReSubEmpty(Lower(word), Separators)

\* word = ? COLLATE NOCASE
EqualsNoCase(a, b) == Lower(a) = Lower(b)

\* SELECT word, pronunciation FROM lexicon WHERE word = ? COLLATE NOCASE:
\* the matching rows in rowid order
RECURSIVE RowsOfWord(_, _)
RowsOfWord(rows, word) ==
    IF rows = <<>> THEN <<>>
    ELSE (IF EqualsNoCase(Head(rows).word, word) THEN <<Head(rows)>> ELSE <<>>)
         \o RowsOfWord(Tail(rows), word)

\* StandaloneLexicon._load_word_to_cache: found = FALSE is the result None
LoadWordToCache(lx, word) ==
    LET rows == RowsOfWord(lexicon, word)
        pronunciations == [i \in 1..Len(rows) |-> StrSplit(rows[i].pronunciation)]
    IN IF db_ok /\ pronunciations # <<>>
       THEN LET entry == [word |-> rows[Len(rows)].word, pronunciations |-> pronunciations]
            IN [found |-> TRUE, entry |-> entry,
                lx |-> [lx EXCEPT !.word_cache = Put(lx.word_cache, word, entry)]]
       ELSE [found |-> FALSE, entry |-> [word |-> word, pronunciations |-> <<>>], lx |-> lx]

\* StandaloneLexicon.exists_in_lexicon; error: the query raised, which the
\* except branch logs before it returns False
ExistsInLexicon(lx, word) ==
    LET normalized_word == NormalizeWord(word)
    IN IF normalized_word \in DOMAIN lx.word_cache
       THEN [result |-> TRUE, lx |-> lx, error |-> FALSE]
       ELSE IF ~db_ok THEN [result |-> FALSE, lx |-> lx, error |-> TRUE]
       ELSE IF RowsOfWord(lexicon, normalized_word) # <<>>
            THEN [result |-> TRUE, lx |-> LoadWordToCache(lx, normalized_word).lx,
                  error |-> FALSE]
            ELSE [result |-> FALSE, lx |-> lx, error |-> FALSE]

\* StandaloneLexicon.get_pronunciations
GetPronunciations(lx, word) ==
    LET normalized_word == NormalizeWord(word)
    IN IF normalized_word \in DOMAIN lx.word_cache
       THEN [result |-> lx.word_cache[normalized_word].pronunciations, lx |-> lx]
       ELSE LET r == LoadWordToCache(lx, normalized_word)
            IN [result |-> r.entry.pronunciations, lx |-> r.lx]

\* phoneme_map of _simulate_g2p: the phonemes of one character ('h' has none,
\* a character that is no key of the map has none)
PhonemeMap(c) ==
    IF c = "c" THEN <<"k">>
    ELSE IF c \in {"a", "b", "d", "e", "f", "g"} THEN <<c>>
    ELSE <<>>

RECURSIVE Phonemes(_)
Phonemes(word) ==
    IF word = <<>> THEN <<>> ELSE PhonemeMap(LowerChar(Head(word))) \o Phonemes(Tail(word))

\* confidence=0.7 of _simulate_g2p
G2PConfidence == <<7, 10>>

NoG2P == [available |-> FALSE, pronunciation |-> <<>>, confidence |-> Zero]

\* StandaloneLexicon._simulate_g2p
SimulateG2p(lx, word) ==
    IF Phonemes(word) # <<>>
    THEN LET result == [available |-> TRUE, pronunciation |-> Phonemes(word),
                        confidence |-> G2PConfidence]
         IN [result |-> result, lx |-> [lx EXCEPT !.g2p_cache = Put(lx.g2p_cache, word, result)]]
    ELSE [result |-> NoG2P, lx |-> lx]

\* mutant: the simulation runs although g2p.fst is missing
PredictWithG2pUnguarded(lx, word) ==
    LET normalized_word == NormalizeWord(word)
    IN IF normalized_word \in DOMAIN lx.g2p_cache
       THEN [result |-> lx.g2p_cache[normalized_word], lx |-> lx]
       ELSE SimulateG2p(lx, normalized_word)

\* StandaloneLexicon.predict_with_g2p: available = FALSE is the result None
PredictWithG2p(lx, word) ==
    LET normalized_word == NormalizeWord(word)
    IN IF ~g2p_available THEN [result |-> NoG2P, lx |-> lx]
       ELSE IF normalized_word \in DOMAIN lx.g2p_cache
            THEN [result |-> lx.g2p_cache[normalized_word], lx |-> lx]
       ELSE SimulateG2p(lx, normalized_word)

\* the inner loop of StandaloneLexicon._calculate_similarity: row i of matrix,
\* filled from left to right; prev is row i - 1, cur the entries 0..j-1 of row i
RECURSIVE StandaloneFillRow(_, _, _, _)
StandaloneFillRow(prev, cur, char1, word2) ==
    IF Len(cur) = Len(word2) + 1 THEN cur
    ELSE LET j == Len(cur)
             cost == IF char1 = word2[j] THEN 0 ELSE 1
             entry == Min3(prev[j + 1] + 1, cur[j] + 1, prev[j] + cost)
         IN StandaloneFillRow(prev, Append(cur, entry), char1, word2)

\* the outer loop: rows i..len(word1), the last row returned
RECURSIVE StandaloneRows(_, _, _, _)
StandaloneRows(prev, i, word1, word2) ==
    IF i > Len(word1) THEN prev
    ELSE StandaloneRows(StandaloneFillRow(prev, <<i>>, word1[i], word2), i + 1,
                        word1, word2)

\* the matrix of StandaloneLexicon._calculate_similarity, entry [len(word1)][len(word2)]
StandaloneDistance(word1, word2) ==
    StandaloneRows(FirstRow(word2), 1, word1, word2)[Len(word2) + 1]

\* StandaloneLexicon._calculate_similarity
StandaloneSimilarity(word1, word2) ==
    IF Len(word1) = 0 THEN Zero
    ELSE IF Len(word2) = 0 THEN Zero
    ELSE LET max_len == Max2(Len(word1), Len(word2))
         IN RatMax(Zero, Rat(max_len - StandaloneDistance(word1, word2), max_len))

\* LIMIT 100 of the candidate query
CandidateLimit == 100

\* the distinct words of table lexicon (SELECT DISTINCT word compares exactly)
DistinctWords == {lexicon[i].word : i \in 1..Len(lexicon)}

\* WHERE word LIKE 'pp%' COLLATE NOCASE over the words in the order the
\* database returns them
LikePrefix(order, prefix) ==
    LET Matches(word) == IsPrefix(Lower(prefix), Lower(word))
    IN SelectSeq(order, Matches)

\* find_similar_words, the loop over the candidates
SimilarCandidates(target_normalized, candidates) ==
    LET scored == [i \in 1..Len(candidates) |->
                      <<candidates[i],
                        StandaloneSimilarity(target_normalized, Lower(candidates[i]))>>]
        Kept(pair) == Lower(pair[1]) # target_normalized /\ RatLt(<<1, 2>>, pair[2])
    IN SelectSeq(scored, Kept)

\* StandaloneLexicon.find_similar_words; order is the order in which the
\* database returns the distinct words
FindSimilarWords(target_word, max_results, order) ==
    LET target_normalized == NormalizeWord(target_word)
    IN IF Len(target_normalized) < 2 THEN <<>>
       ELSE IF ~db_ok THEN <<>>
       ELSE LET candidates == Take(LikePrefix(order, SubSeq(target_normalized, 1, 2)),
                                   CandidateLimit)
            IN Take(SortByScoreDesc(SimilarCandidates(target_normalized, candidates)),
                    max_results)

(***************************************************************************)
(* SpeechToPhrasePredictor.                                                *)
(***************************************************************************)
\* mutant: the thresholds are compared with > instead of >=
CalculateConfidenceLevelStrict(score) ==
    IF RatLt(<<95, 100>>, score) THEN "excellent"
    ELSE IF RatLt(<<70, 100>>, score) THEN "good"
    ELSE IF RatLt(<<50, 100>>, score) THEN "moderate"
    ELSE IF RatLt(<<25, 100>>, score) THEN "poor"
    ELSE "unknown"

\* SpeechToPhrasePredictor._calculate_confidence_level
CalculateConfidenceLevel(score) ==
    IF RatLe(<<95, 100>>, score) THEN "excellent"
    ELSE IF RatLe(<<70, 100>>, score) THEN "good"
    ELSE IF RatLe(<<50, 100>>, score) THEN "moderate"
    ELSE IF RatLe(<<25, 100>>, score) THEN "poor"
    ELSE "unknown"

\* a note or a recommendation: its kind, the number it quotes and the word it names
Message(kind, count, word) == [kind |-> kind, count |-> count, word |-> word]

\* a recommendation that looks at the similar words before the G2P confidence
GenerateWordRecommendationSimilarFirst(p) ==
    IF p.in_lexicon THEN "optimal"
    ELSE IF p.similar_words # <<>> THEN "suggestion"
    ELSE IF p.g2p_available /\ RatLt(<<7, 10>>, p.g2p_confidence) THEN "good"
    ELSE IF p.g2p_available /\ RatLt(<<5, 10>>, p.g2p_confidence) THEN "medium"
    ELSE "problematic"

\* SpeechToPhrasePredictor._generate_word_recommendation; a g2p_confidence of
\* None is the confidence 0, which the conditions treat alike
GenerateWordRecommendation(p) ==
    IF p.in_lexicon THEN "optimal"
    ELSE IF p.g2p_available /\ p.g2p_confidence # Zero /\ RatLt(<<7, 10>>, p.g2p_confidence)
         THEN "good"
    ELSE IF p.g2p_available /\ p.g2p_confidence # Zero /\ RatLt(<<5, 10>>, p.g2p_confidence)
         THEN "medium"
    ELSE IF p.similar_words # <<>> THEN "suggestion"
    ELSE "problematic"

\* the WordPrediction of the except branch of predict_word
ErrorWordPrediction(word) ==
    [word |-> word, confidence |-> "unknown", confidence_score |-> Zero,
     in_lexicon |-> FALSE, lexicon_pronunciations |-> <<>>, g2p_available |-> FALSE,
     g2p_pronunciation |-> <<>>, g2p_confidence |-> Zero, similar_words |-> <<>>,
     recommendation |-> "error", notes |-> <<Message("error", 0, <<>>)>>]

\* the 30% boost of predict_word
SimilarityBoostFactor == <<3, 10>>

\* mutant: the boost is added to the score without the cap and without the
\* factor 0.3
BoostedScoreUnscaled(confidence_score, similar_words) ==
    IF similar_words # <<>> THEN RatAdd(confidence_score, similar_words[1][2])
    ELSE confidence_score

\* predict_word, lines 158-161: the score after the similarity boost
BoostedScore(confidence_score, similar_words) ==
    IF similar_words # <<>>
    THEN RatMin(One, RatAdd(confidence_score,
                            RatMul(similar_words[1][2], SimilarityBoostFactor)))
    ELSE confidence_score

\* mutant: the similarity ranker runs for a word of the lexicon too
SimilarWordsAlways(in_lexicon, word, order) ==
    FindSimilarWords(word, DefaultMaxResults, order)

\* predict_word, lines 155-157: similar words are looked for only on a miss
SimilarWordsOnMiss(in_lexicon, word, order) ==
    IF ~in_lexicon THEN FindSimilarWords(word, DefaultMaxResults, order) ELSE <<>>

\* predict_word, lines 131-145: the score before the boost
BaseScore(in_lexicon, g2p_result) ==
    IF in_lexicon THEN One
    ELSE IF g2p_result.available THEN g2p_result.confidence ELSE Zero

\* predict_word: the notes, in the order they are appended
WordNotes(in_lexicon, pronunciations, g2p_result, similar_words) ==
    <<IF in_lexicon THEN Message("in_lexicon", Len(pronunciations), <<>>)
      ELSE IF g2p_result.available THEN Message("g2p", 0, <<>>)
      ELSE Message("no_g2p", 0, <<>>)>>
    \o (IF similar_words # <<>>
        THEN <<Message("similar", Len(similar_words), <<>>)>> ELSE <<>>)

\* predict_word, lines 166-180: the WordPrediction, its recommendation computed
\* from the other fields
WordPrediction(word, in_lexicon, pronunciations, g2p_result, similar_words, confidence_score) ==
    [word |-> word,
     confidence |-> CalculateConfidenceLevel(confidence_score),
     confidence_score |-> confidence_score,
     in_lexicon |-> in_lexicon,
     lexicon_pronunciations |-> IF in_lexicon THEN pronunciations ELSE <<>>,
     g2p_available |-> ~in_lexicon /\ g2p_result.available,
     g2p_pronunciation |-> IF in_lexicon THEN <<>> ELSE g2p_result.pronunciation,
     g2p_confidence |-> IF in_lexicon THEN Zero ELSE g2p_result.confidence,
     similar_words |-> similar_words,
     recommendation |-> "",
     notes |-> WordNotes(in_lexicon, pronunciations, g2p_result, similar_words)]

WithRecommendation(p) == [p EXCEPT !.recommendation = GenerateWordRecommendation(p)]

\* predict_word after its calls on the lexicon: e is what exists_in_lexicon
\* answered, prons get_pronunciations, g2p predict_with_g2p
PredictWordResult(word, e, prons, g2p, similar_words) ==
    [pred |-> WithRecommendation(
                  WordPrediction(word, e.result, prons.result, g2p.result, similar_words,
                                 BoostedScore(BaseScore(e.result, g2p.result),
                                              similar_words))),
     lx |-> IF e.result THEN prons.lx ELSE g2p.lx,
     error |-> e.error]

\* predict_word, lines 128-157: the calls on the lexicon once
\* exists_in_lexicon has answered e
PredictWordLookups(word, order, e) ==
    PredictWordResult(word, e, GetPronunciations(e.lx, word), PredictWithG2p(e.lx, word),
                      SimilarWordsOnMiss(e.result, word, order))

\* SpeechToPhrasePredictor.predict_word, the try block
PredictWord(lx, word, order) == PredictWordLookups(word, order, ExistsInLexicon(lx, word))

\* mutant: the tokens are not lowercased
ComponentWordsKeepCase(entity_name) == NonEmpty(ReSplit(entity_name, Separators))

\* StandaloneLexicon.validate_word_components, lines 314-315: the tokens
ComponentWords(entity_name) == NonEmpty(ReSplit(Lower(entity_name), Separators))

\* validate_word_components, one round of the loop once exists_in_lexicon
\* has answered e: what it does to the caches
ValidateComponentLookups(word, e) ==
    IF e.result THEN GetPronunciations(e.lx, word).lx ELSE PredictWithG2p(e.lx, word).lx

ValidateComponent(lx, word) == ValidateComponentLookups(word, ExistsInLexicon(lx, word))

\* validate_word_components, the loop over the tokens
RECURSIVE ValidateComponents(_, _)
ValidateComponents(lx, words) ==
    IF words = <<>> THEN lx
    ELSE ValidateComponents(ValidateComponent(lx, Head(words)), Tail(words))

\* word_predictions.append(word_prediction)
AppendPrediction(done, r) ==
    [preds |-> Append(done.preds, r.pred), lx |-> r.lx, error |-> done.error \/ r.error]

\* predict_entity, the loop over the components; done holds the predictions
\* appended so far
RECURSIVE PredictWords(_, _, _)
PredictWords(done, words, order) ==
    IF words = <<>> THEN done
    ELSE PredictWords(AppendPrediction(done, PredictWord(done.lx, Head(words), order)),
                      Tail(words), order)

RECURSIVE TotalScore(_)
TotalScore(preds) ==
    IF preds = <<>> THEN Zero
    ELSE RatAdd(Head(preds).confidence_score, TotalScore(Tail(preds)))

\* mutant: the total is divided by one more than the number of predictions
OverallScoreOffByOne(word_predictions) ==
    IF word_predictions # <<>>
    THEN RatDivInt(TotalScore(word_predictions), Len(word_predictions) + 1)
    ELSE Zero

\* predict_entity, lines 219-225: the mean of the scores
OverallScore(word_predictions) ==
    IF word_predictions # <<>>
    THEN RatDivInt(TotalScore(word_predictions), Len(word_predictions))
    ELSE Zero

\* predict_entity, lines 221-222
RecognitionPercentage(word_predictions) ==
    IF word_predictions # <<>>
    THEN Rat(100 * Cardinality({i \in 1..Len(word_predictions) :
                                    RatLe(<<7, 10>>, word_predictions[i].confidence_score)}),
             Len(word_predictions))
    ELSE Zero

\* SpeechToPhrasePredictor._generate_entity_recommendations
GenerateEntityRecommendations(word_predictions, overall_score) ==
    LET n == Len(word_predictions)
        unknown_words == {i \in 1..n : word_predictions[i].confidence = "unknown"}
        poor_words == {i \in 1..n : word_predictions[i].confidence = "poor"}
        g2p_words == {i \in 1..n : word_predictions[i].g2p_available
                                   /\ ~word_predictions[i].in_lexicon}
    IN (IF unknown_words # {} THEN <<Message("unknown_words", Cardinality(unknown_words), <<>>)>>
        ELSE <<>>)
       \o (IF poor_words # {} THEN <<Message("poor_words", Cardinality(poor_words), <<>>)>>
           ELSE <<>>)
       \o (IF g2p_words # {} THEN <<Message("g2p_words", Cardinality(g2p_words), <<>>)>>
           ELSE <<>>)
       \o <<Message(IF RatLe(<<9, 10>>, overall_score) THEN "entity_excellent"
                    ELSE IF RatLe(<<7, 10>>, overall_score) THEN "entity_good"
                    ELSE IF RatLe(<<5, 10>>, overall_score) THEN "entity_mediocre"
                    ELSE "entity_problematic", 0, <<>>)>>

\* str.replace(old, new): every occurrence of old, left to right, not overlapping
RECURSIVE ReplaceAll(_, _, _)
ReplaceAll(s, old, new) ==
    IF s = <<>> THEN <<>>
    ELSE IF old # <<>> /\ IsPrefix(old, s)
         THEN new \o ReplaceAll(SubSeq(s, Len(old) + 1, Len(s)), old, new)
         ELSE <<Head(s)>> \o ReplaceAll(Tail(s), old, new)

\* _suggest_entity_alternatives, the loop over the predictions
RECURSIVE Substitutions(_, _)
Substitutions(entity_name, word_predictions) ==
    IF word_predictions = <<>> THEN <<>>
    ELSE LET wp == Head(word_predictions)
         IN (IF wp.confidence \in {"poor", "unknown"} /\ wp.similar_words # <<>>
             THEN <<[kind |-> "substitute",
                     text |-> ReplaceAll(entity_name, wp.word, wp.similar_words[1][1]),
                     old |-> wp.word, new |-> wp.similar_words[1][1]]>>
             ELSE <<>>)
            \o Substitutions(entity_name, Tail(word_predictions))

Advice(kind) == [kind |-> kind, text |-> <<>>, old |-> <<>>, new |-> <<>>]

\* the cap of _suggest_entity_alternatives
MaxAlternatives == 3

\* alternatives returned whole, without the cap
SuggestEntityAlternativesUncapped(entity_name, word_predictions) ==
    Substitutions(entity_name, word_predictions)
    \o (IF Len(word_predictions) > 2 THEN <<Advice("abbreviate")>> ELSE <<>>)

\* SpeechToPhrasePredictor._suggest_entity_alternatives
SuggestEntityAlternatives(entity_name, word_predictions) ==
    Take(Substitutions(entity_name, word_predictions)
         \o (IF Len(word_predictions) > 2 THEN <<Advice("abbreviate")>> ELSE <<>>)
         \o (IF \E i \in 1..Len(word_predictions) :
                    \E k \in 1..Len(word_predictions[i].word) :
                        word_predictions[i].word[k] = "_"
             THEN <<Advice("underscore")>> ELSE <<>>),
         MaxAlternatives)

\* the EntityPrediction of the except branch of predict_entity
ErrorEntityPrediction(entity_name) ==
    [entity_name |-> entity_name, word_predictions |-> <<>>,
     overall_confidence |-> "unknown", overall_score |-> Zero,
     recognition_percentage |-> Zero,
     recommendations |-> <<Message("error", 0, <<>>)>>,
     suggested_alternatives |-> <<>>]

\* predict_entity, lines 227-243: the EntityPrediction
EntityPrediction(entity_name, word_predictions, overall_score) ==
    [entity_name |-> entity_name,
     word_predictions |-> word_predictions,
     overall_confidence |-> CalculateConfidenceLevel(overall_score),
     overall_score |-> overall_score,
     recognition_percentage |-> RecognitionPercentage(word_predictions),
     recommendations |-> GenerateEntityRecommendations(word_predictions, overall_score),
     suggested_alternatives |-> SuggestEntityAlternatives(entity_name, word_predictions)]

\* predict_entity after the loop over the components
PredictEntityResult(entity_name, r) ==
    [pred |-> EntityPrediction(entity_name, r.preds, OverallScore(r.preds)),
     lx |-> r.lx,
     error |-> r.error]

\* predict_entity once validate_word_components has run
PredictComponents(lx, entity_name, words, order) ==
    PredictEntityResult(entity_name,
                        PredictWords([preds |-> <<>>, lx |-> lx, error |-> FALSE],
                                     words, order))

\* SpeechToPhrasePredictor.predict_entity, the try block
PredictEntity(lx, entity_name, order) ==
    PredictComponents(ValidateComponents(lx, ComponentWords(entity_name)), entity_name,
                      ComponentWords(entity_name), order)

(***************************************************************************)
(* The calls on one SpeechToPhrasePredictor.                               *)
(***************************************************************************)
\* the words predict_word is asked about
PredictorWords ==
    { <<"a", "b", "c">>, <<"A", "b", "_", "c">>, <<"a", "b", "e">>,
      <<"a", "b", "c", "d", "e", "g">>, <<"h">> }

\* the entity names predict_entity is asked about
PredictorEntities ==
    { <<"a", "b", "c", "_", "-", "a", "b", "e">>,                           \* abc_-abe
      <<"A", "b", "c", "-", "a", "b", "d", " ", "a", "b", "e">>,            \* Abc-abd abe
      <<"a", "b", "e", " ", "h">>,                                          \* abe h
      <<"a", "b", "e", " ", "a", "b", "f", " ", "a", "b", "g">>,            \* abe abf abg
      <<"_", "-">>,                                                         \* _-
      <<>> }                                                                \* the empty name

\* an argument that is no string (None)
NotAString == <<"None">>

NoWordPrediction == [ErrorWordPrediction(<<>>) EXCEPT !.recommendation = "", !.notes = <<>>]
NoEntityPrediction == [ErrorEntityPrediction(<<>>) EXCEPT !.recommendations = <<>>]

\* no call yet
NoPrediction ==
    [op |-> "none", arg |-> <<>>, raised |-> FALSE, storage_error |-> FALSE,
     word |-> NoWordPrediction, entity |-> NoEntityPrediction]

SetLexicon(lx) ==
    /\ word_cache' = lx.word_cache
    /\ g2p_cache' = lx.g2p_cache

\* SpeechToPhrasePredictor.initialize: it succeeds when the model is available
\* (downloaded, lexicon.db present) and fails otherwise
InitializeCall ==
    /\ \E available \in BOOLEAN : initialized' = (initialized \/ available)
    /\ prediction' = [NoPrediction EXCEPT !.op = "initialize"]
    /\ UNCHANGED <<lexicon, g2p_available, db_ok, word_cache, g2p_cache, wrapperVars, validatorVars, callerVars, serviceVars>>

\* predict_word before initialize: raise ValueError
PredictWordUninitialized ==
    /\ ~initialized
    /\ \E word \in PredictorWords :
           prediction' = [NoPrediction EXCEPT !.op = "predict_word", !.arg = word,
                                              !.raised = TRUE]
    /\ UNCHANGED <<lexicon, g2p_available, db_ok, word_cache, g2p_cache, initialized, wrapperVars, validatorVars, callerVars, serviceVars>>

\* the caller receives the prediction r.pred, the lexicon is left as r.lx
ReturnWord(word, r) ==
    /\ SetLexicon(r.lx)
    /\ prediction' = [NoPrediction EXCEPT !.op = "predict_word", !.arg = word,
                                          !.storage_error = r.error, !.word = r.pred]

PredictWordCall ==
    /\ initialized
    /\ \E word \in PredictorWords, order \in Enumerations(DistinctWords) :
           ReturnWord(word, PredictWord(ThisLexicon, word, order))
    /\ UNCHANGED <<lexicon, g2p_available, db_ok, initialized, wrapperVars, validatorVars, callerVars, serviceVars>>

\* predict_word with an argument that is no string: word.lower() raises in
\* normalize_word and the except branch of predict_word answers
PredictWordNotAString ==
    /\ initialized
    /\ prediction' = [NoPrediction EXCEPT !.op = "predict_word", !.arg = NotAString,
                                          !.word = ErrorWordPrediction(NotAString)]
    /\ UNCHANGED <<lexicon, g2p_available, db_ok, word_cache, g2p_cache, initialized, wrapperVars, validatorVars, callerVars, serviceVars>>

\* predict_entity before initialize: raise ValueError
PredictEntityUninitialized ==
    /\ ~initialized
    /\ \E entity_name \in PredictorEntities :
           prediction' = [NoPrediction EXCEPT !.op = "predict_entity", !.arg = entity_name,
                                              !.raised = TRUE]
    /\ UNCHANGED <<lexicon, g2p_available, db_ok, word_cache, g2p_cache, initialized, wrapperVars, validatorVars, callerVars, serviceVars>>

ReturnEntity(entity_name, r) ==
    /\ SetLexicon(r.lx)
    /\ prediction' = [NoPrediction EXCEPT !.op = "predict_entity", !.arg = entity_name,
                                          !.storage_error = r.error, !.entity = r.pred]

PredictEntityCall ==
    /\ initialized
    /\ \E entity_name \in PredictorEntities, order \in Enumerations(DistinctWords) :
           ReturnEntity(entity_name, PredictEntity(ThisLexicon, entity_name, order))
    /\ UNCHANGED <<lexicon, g2p_available, db_ok, initialized, wrapperVars, validatorVars, callerVars, serviceVars>>

\* predict_entity with an argument that is no string: entity_name.lower()
\* raises and the except branch of predict_entity answers
PredictEntityNotAString ==
    /\ initialized
    /\ prediction' = [NoPrediction EXCEPT !.op = "predict_entity", !.arg = NotAString,
                                          !.entity = ErrorEntityPrediction(NotAString)]
    /\ UNCHANGED <<lexicon, g2p_available, db_ok, word_cache, g2p_cache, initialized, wrapperVars, validatorVars, callerVars, serviceVars>>

\* lexicon.db stops answering (removed, locked or corrupted): queries raise
DbFails ==
    /\ db_ok
    /\ db_ok' = FALSE
    /\ UNCHANGED <<lexicon, g2p_available, word_cache, g2p_cache, initialized, prediction, wrapperVars, validatorVars, callerVars, serviceVars>>

DbRecovers ==
    /\ ~db_ok
    /\ db_ok' = TRUE
    /\ UNCHANGED <<lexicon, g2p_available, word_cache, g2p_cache, initialized, prediction, wrapperVars, validatorVars, callerVars, serviceVars>>

\* a predictor just constructed over a model directory
PredictorInit ==
    /\ lexicon \in LexiconTables
    /\ g2p_available \in BOOLEAN
    /\ db_ok = TRUE
    /\ word_cache = EmptyDict
    /\ g2p_cache = EmptyDict
    /\ initialized = FALSE
    /\ prediction = NoPrediction

PredictorNext ==
    \/ InitializeCall
    \/ PredictWordUninitialized
    \/ PredictWordCall
    \/ PredictWordNotAString
    \/ PredictEntityUninitialized
    \/ PredictEntityCall
    \/ PredictEntityNotAString
    \/ DbFails
    \/ DbRecovers

(***************************************************************************)
(* Properties of the predictor.                                            *)
(***************************************************************************)
\* the call returned a prediction
Returned(op) == prediction.op = op /\ ~prediction.raised

\* the word predictions the last call handed to the caller: the one of
\* predict_word, or the components of the entity prediction
ReturnedWordPredictions ==
    IF Returned("predict_word") THEN {prediction.word}
    ELSE IF Returned("predict_entity")
         THEN {prediction.entity.word_predictions[i]
               : i \in 1..Len(prediction.entity.word_predictions)}
    ELSE {}

\* the pronunciations table lexicon holds for a word, in row order
LexiconPronunciations(word) ==
    LET rows == RowsOfWord(lexicon, NormalizeWord(word))
    IN [i \in 1..Len(rows) |-> StrSplit(rows[i].pronunciation)]

RatEq(p, q) == p[1] * q[2] = q[1] * p[2]

\* the tier of a score <<n, d>> by the thresholds 0.95, 0.70, 0.50, 0.25
TierOf(score) ==
    IF 100 * score[1] >= 95 * score[2] THEN "excellent"
    ELSE IF 100 * score[1] >= 70 * score[2] THEN "good"
    ELSE IF 100 * score[1] >= 50 * score[2] THEN "moderate"
    ELSE IF 100 * score[1] >= 25 * score[2] THEN "poor"
    ELSE "unknown"

\* the best similarity among the similar words, 0 when there is none
TopSimilarity(similar_words) ==
    IF similar_words = <<>> THEN Zero
    ELSE CHOOSE s \in {similar_words[i][2] : i \in 1..Len(similar_words)} :
             \A i \in 1..Len(similar_words) : RatLe(similar_words[i][2], s)

\* C4: a word prediction with in_lexicon true has score 1.0 and tier EXCELLENT,
\* carries the pronunciations the lexicon holds for the word, and has no G2P
\* guess and no similar words.
C4_InLexiconIsExcellent ==
    \A p \in ReturnedWordPredictions :
        p.in_lexicon =>
            /\ p.confidence_score = One
            /\ p.confidence = "excellent"
            /\ p.lexicon_pronunciations = LexiconPronunciations(p.word)
            /\ p.lexicon_pronunciations # <<>>
            /\ ~p.g2p_available
            /\ p.g2p_pronunciation = <<>>
            /\ p.similar_words = <<>>

\* a word found under another spelling (Ab_c for abc) while the lexicon holds
\* a word the similarity ranker would have proposed (abd)
C4_Witness ==
    /\ Returned("predict_word")
    /\ prediction.arg = <<"A", "b", "_", "c">>
    /\ prediction.word.in_lexicon
    /\ <<"a", "b", "d">> \in DistinctWords

\* C5: for a word not in the lexicon the score is min(1, base + 0.3 * top),
\* base the G2P confidence when there is a G2P guess and 0 otherwise, top the
\* best similarity of similar_words and 0 when there is none; the score lies
\* in [0, 1].
C5_MissScoreIsBoostedBase ==
    \A p \in ReturnedWordPredictions :
        ~p.in_lexicon =>
            LET base == IF p.g2p_available THEN p.g2p_confidence ELSE Zero
                top == TopSimilarity(p.similar_words)
                sum == <<base[1] * 10 * top[2] + 3 * top[1] * base[2], base[2] * 10 * top[2]>>
            IN /\ RatEq(p.confidence_score, IF RatLe(One, sum) THEN One ELSE sum)
               /\ RatLe(Zero, p.confidence_score)
               /\ RatLe(p.confidence_score, One)
               /\ p.similar_words # <<>> => top = p.similar_words[1][2]

\* a miss with a G2P guess and a similar word: 0.7 + 0.3 * 2/3 = 0.9
C5_Witness ==
    /\ Returned("predict_word")
    /\ ~prediction.word.in_lexicon
    /\ prediction.word.g2p_available
    /\ prediction.word.similar_words # <<>>
    /\ prediction.word.confidence_score = <<9, 10>>

\* C6: the tier of every word prediction and of every entity prediction is
\* the tier the thresholds 0.95 / 0.70 / 0.50 / 0.25 give its own score, on
\* the normal path and on the error path.
C6_TierFollowsScore ==
    /\ \A p \in ReturnedWordPredictions : p.confidence = TierOf(p.confidence_score)
    /\ Returned("predict_entity") =>
           prediction.entity.overall_confidence = TierOf(prediction.entity.overall_score)

\* a score that sits on a threshold: the G2P confidence 0.7 is GOOD
C6_Witness ==
    \E p \in ReturnedWordPredictions :
        p.confidence_score = <<7, 10>> /\ p.confidence = "good"

\* C7: a call on an initialized predictor never raises, and a storage error
\* met during the call (a failing query on lexicon.db) is surfaced as a
\* prediction of tier UNKNOWN and score 0.0.  (The claim asks for an
\* explanatory note as well; tier and score are what the formula holds the
\* prediction to.)
C7_StorageErrorsSurface ==
    /\ initialized /\ prediction.op \in {"predict_word", "predict_entity"} =>
           ~prediction.raised
    /\ Returned("predict_word") /\ prediction.storage_error =>
           /\ prediction.word.confidence = "unknown"
           /\ prediction.word.confidence_score = Zero
    /\ Returned("predict_entity") /\ prediction.storage_error =>
           /\ prediction.entity.overall_confidence = "unknown"
           /\ prediction.entity.overall_score = Zero

\* a G2P guess can be made for the word: g2p.fst exists and a letter of the
\* word has a phoneme
HasG2PGuess(word) == g2p_available /\ Phonemes(NormalizeWord(word)) # <<>>

\* C8 as stated: with an empty lexicon every word prediction is UNKNOWN with
\* score 0.0, not in the lexicon and without similar words, whether or not the
\* G2P artifact is present.
C8_EmptyLexiconIsUnknown ==
    lexicon = <<>> =>
        \A p \in ReturnedWordPredictions :
            /\ p.confidence = "unknown"
            /\ p.confidence_score = Zero
            /\ ~p.in_lexicon
            /\ p.similar_words = <<>>

\* C8 amended: with an empty lexicon every word prediction is not in the
\* lexicon and has no similar words; it is UNKNOWN with score 0.0 when no G2P
\* guess can be made, and GOOD with the G2P confidence 0.7 when one can.
C8_EmptyLexiconIsUnknownWithoutG2P ==
    lexicon = <<>> =>
        \A p \in ReturnedWordPredictions :
            /\ ~p.in_lexicon
            /\ p.similar_words = <<>>
            /\ IF HasG2PGuess(p.word)
               THEN p.confidence = "good" /\ p.confidence_score = <<7, 10>>
               ELSE p.confidence = "unknown" /\ p.confidence_score = Zero

\* the entity "abe h" over an empty lexicon with g2p.fst: abe gets the G2P
\* confidence, h (no phoneme) gets 0.0
C8_Witness ==
    /\ lexicon = <<>>
    /\ Returned("predict_entity")
    /\ Len(prediction.entity.word_predictions) = 2
    /\ prediction.entity.word_predictions[1].confidence = "good"
    /\ prediction.entity.word_predictions[2].confidence = "unknown"

\* C9: predict_entity returns one word prediction per token, in token order,
\* and the overall score is the mean of their scores, 0.0 when there is no
\* token.
C9_OverallScoreIsMean ==
    Returned("predict_entity") /\ prediction.arg # NotAString =>
        LET tokens == ComponentWords(prediction.arg)
            wps == prediction.entity.word_predictions
            sum[k \in 0..Len(wps)] ==
                IF k = 0 THEN Zero ELSE RatAdd(sum[k - 1], wps[k].confidence_score)
        IN /\ Len(wps) = Len(tokens)
           /\ \A i \in 1..Len(tokens) : wps[i].word = tokens[i]
           /\ tokens # <<>> =>
                  RatEq(RatMul(<<Len(wps), 1>>, prediction.entity.overall_score),
                        sum[Len(wps)])
           /\ tokens = <<>> => prediction.entity.overall_score = Zero

\* three tokens whose scores differ
C9_Witness ==
    /\ Returned("predict_entity")
    /\ Len(prediction.entity.word_predictions) = 3
    /\ prediction.entity.word_predictions[1].confidence_score = One
    /\ prediction.entity.word_predictions[3].confidence_score # One
    /\ prediction.entity.overall_score \notin {Zero, One}

(***************************************************************************)
(* The two tokenizers of an entity name.                                   *)
(***************************************************************************)
\* longest entity name tokenized
MaxNameLen == 4

\* the characters of the names: a lowercase letter, an uppercase letter and
\* the three kinds of separator
NameChars == {"a", "B", "_", "-", " "}

TokenizerNames == UNION {[1..n -> NameChars] : n \in 0..MaxNameLen}

\* SpeechToPhraseValidator.validate_entity_name, line 179:
\* entity_name.lower().replace("_", " ").replace("-", " ").split()
ValidatorWords(entity_name) ==
    StrSplit(Replace(Replace(Lower(entity_name), "_", " "), "-", " "))

NotTokenized ==
    [name |-> <<>>, components_done |-> FALSE, components |-> <<>>,
     words_done |-> FALSE, words |-> <<>>]

\* StandaloneLexicon.validate_word_components splits the name
ValidateWordComponentsSplit ==
    /\ ~tokenized.components_done
    /\ tokenized' = [tokenized EXCEPT !.components_done = TRUE,
                                      !.components = ComponentWords(tokenized.name)]
    /\ UNCHANGED <<wrapperVars, predictorVars, models, current_model, current_lexicon, validation, callerVars, serviceVars>>

\* SpeechToPhraseValidator.validate_entity_name splits the name
ValidateEntityNameSplit ==
    /\ ~tokenized.words_done
    /\ tokenized' = [tokenized EXCEPT !.words_done = TRUE,
                                      !.words = ValidatorWords(tokenized.name)]
    /\ UNCHANGED <<wrapperVars, predictorVars, models, current_model, current_lexicon, validation, callerVars, serviceVars>>

TokenizerInit ==
    \E name \in TokenizerNames : tokenized = [NotTokenized EXCEPT !.name = name]

TokenizerNext ==
    \/ ValidateWordComponentsSplit
    \/ ValidateEntityNameSplit

\* where the runs of characters that are no separators start
RunStarts(name) ==
    {i \in 1..Len(name) : name[i] \notin Separators /\ (i = 1 \/ name[i - 1] \in Separators)}

\* where the run that starts at s ends
RunEnd(name, s) ==
    CHOOSE e \in s..Len(name) :
        /\ \A k \in s..e : name[k] \notin Separators
        /\ e = Len(name) \/ name[e + 1] \in Separators

\* C10: the tokens of an entity name are its maximal runs of characters other
\* than underscore, hyphen and whitespace, lowercased and in source order, so
\* no token is empty or holds a separator or an uppercase letter; the
\* tokenizer of validate_word_components and the tokenizer of
\* validate_entity_name make the same tokens.
C10_TokenizersAgree ==
    LET name == tokenized.name
        tokens == tokenized.components
    IN /\ tokenized.components_done =>
              /\ Len(tokens) = Cardinality(RunStarts(name))
              /\ \A s \in RunStarts(name) :
                     tokens[Cardinality({r \in RunStarts(name) : r <= s})]
                         = Lower(SubSeq(name, s, RunEnd(name, s)))
              /\ \A i \in 1..Len(tokens) :
                     /\ tokens[i] # <<>>
                     /\ \A k \in 1..Len(tokens[i]) :
                            tokens[i][k] \notin Separators /\ ~IsUpperLetter(tokens[i][k])
       /\ tokenized.components_done /\ tokenized.words_done =>
              tokenized.components = tokenized.words

\* the name B_-a: an uppercase token, a run of two different separators
C10_Witness ==
    /\ tokenized.name = <<"B", "_", "-", "a">>
    /\ tokenized.components_done
    /\ tokenized.words_done
    /\ tokenized.components = <<<<"b">>, <<"a">>>>

(***************************************************************************)
(* SpeechToPhraseValidator over the models of one ModelManager.            *)
(***************************************************************************)
\* the directories of the models directory, and an id that names none of them
ModelIds == {"m1", "m2"}
UnknownModelId == "m3"

\* ModelInfo.lexicon_db_path: None, or a file that does not exist ("none"),
\* or a database with its rows
NoSource == [kind |-> "none", rows |-> {}]

ModelSources ==
    { NoSource,
      [kind |-> "db",
       rows |-> {[word |-> <<"a", "b">>, phonemes |-> <<"k", " ", "a">>, pron_order |-> 0]}],
      [kind |-> "db",
       rows |-> {[word |-> <<"a", "b">>, phonemes |-> <<"g">>, pron_order |-> 1],
                 [word |-> <<"A", "b">>, phonemes |-> <<"e">>, pron_order |-> 0]}] }

\* ModelManager._models after _scan_models
ModelDirectories == UNION {[ids -> ModelSources] : ids \in SUBSET ModelIds}

\* the words validate_word is asked about and the names validate_entity_name
\* is asked about
ValidatorQueries == { <<"a", "b">>, <<"A", "b">>, <<"a", "b", "e">> }

ValidatorEntities ==
    { <<>>,                                        \* the empty name
      <<"_", "-">>,                                \* _-
      <<"a", "b", " ", "A", "b">>,                 \* ab Ab
      <<"a", "b", "-", "a", "b", "e">> }           \* ab-abe

\* validate_word, lines 113-122: no model selected
NoModelResult(word) ==
    [word |-> word, status |-> "error", is_known |-> FALSE, pronunciations |-> <<>>,
     similar_words |-> <<>>, model_id |-> "none", confidence |-> Zero,
     notes |-> <<Message("no_model", 0, <<>>)>>]

\* validate_word, lines 127-161: the result made of the pronunciations found
WordValidationResult(word, pronunciations) ==
    LET is_known == Len(pronunciations) > 0
    IN [word |-> word,
        status |-> IF is_known THEN "known" ELSE "unknown",
        is_known |-> is_known,
        pronunciations |-> pronunciations,
        similar_words |-> <<>>,
        model_id |-> IF current_model # "none" THEN current_model ELSE "unknown",
        confidence |-> IF is_known THEN One ELSE Zero,
        notes |-> <<IF is_known THEN Message("recognized", Len(pronunciations), <<>>)
                    ELSE Message("not_recognized", 0, <<>>)>>]

\* validate_word after self._current_lexicon.lookup(word) returned r
ValidateWordLookup(word, r) ==
    [result |-> WordValidationResult(word, r.result), st |-> r.st]

\* SpeechToPhraseValidator.validate_word; st is the wrapper before the call
ValidateWord(st, word) ==
    IF current_lexicon = "none" THEN [result |-> NoModelResult(word), st |-> st]
    ELSE ValidateWordLookup(word, Lookup(st, word))

\* validate_entity_name, lines 181-185: the loop over the words
RECURSIVE ValidateWords(_, _, _)
RECURSIVE ValidateRest(_, _, _)
ValidateWords(st, done, words) ==
    IF words = <<>> THEN [results |-> done, st |-> st]
    ELSE ValidateRest(done, Tail(words), ValidateWord(st, Head(words)))

ValidateRest(done, rest, r) == ValidateWords(r.st, Append(done, r.result), rest)

\* validate_entity_name, lines 188-195
OverallStatus(word_results) ==
    IF word_results = <<>> THEN "error"
    ELSE IF \A i \in 1..Len(word_results) : word_results[i].status = "known" THEN "known"
    ELSE IF \E i \in 1..Len(word_results) : word_results[i].status = "unknown" THEN "unknown"
    ELSE "guessed"

\* validate_entity_name, lines 205-208: one line for every unknown word that
\* has similar words
RECURSIVE ValidatorAlternatives(_)
ValidatorAlternatives(unknown_words) ==
    IF unknown_words = <<>> THEN <<>>
    ELSE (IF Head(unknown_words).similar_words # <<>>
          THEN <<Message("alternative", 0, Head(unknown_words).word)>> ELSE <<>>)
         \o ValidatorAlternatives(Tail(unknown_words))

\* validate_entity_name, lines 198-211
ValidatorRecommendations(word_results, overall_status) ==
    LET IsUnknown(r) == r.status = "unknown"
        unknown_words == SelectSeq(word_results, IsUnknown)
    IN (IF unknown_words # <<>>
        THEN <<Message("replace", Len(unknown_words),
                       [i \in 1..Len(unknown_words) |-> unknown_words[i].word])>>
             \o ValidatorAlternatives(unknown_words)
        ELSE <<>>)
       \o (IF overall_status = "guessed" THEN <<Message("estimated", 0, <<>>)>> ELSE <<>>)

\* validate_entity_name, lines 213-219
EntityValidationResult(entity_name, word_results) ==
    [entity_id |-> entity_name,
     friendly_name |-> entity_name,
     words_results |-> word_results,
     overall_status |-> OverallStatus(word_results),
     recommendations |-> ValidatorRecommendations(word_results, OverallStatus(word_results))]

ValidateEntityResult(entity_name, r) ==
    [result |-> EntityValidationResult(entity_name, r.results), st |-> r.st]

\* SpeechToPhraseValidator.validate_entity_name
ValidateEntityName(st, entity_name) ==
    ValidateEntityResult(entity_name, ValidateWords(st, <<>>, ValidatorWords(entity_name)))

(***************************************************************************)
(* The calls on one SpeechToPhraseValidator.                               *)
(***************************************************************************)
NoWordResult == [NoModelResult(<<>>) EXCEPT !.status = "none", !.notes = <<>>]
NoEntityResult ==
    [entity_id |-> <<>>, friendly_name |-> <<>>, words_results |-> <<>>,
     overall_status |-> "none", recommendations |-> <<>>]

\* no call yet; ok is what set_model returned, and after set_model word and
\* entity are still the results of the calls before it
NoValidation ==
    [op |-> "none", model_id |-> "none", arg |-> <<>>, ok |-> FALSE,
     word |-> NoWordResult, entity |-> NoEntityResult]

\* mutant: the new wrapper takes over the caches of the wrapper it replaces
WarmLexiconWrapper(model_id) == ThisWrapper

\* set_model, line 89: LexiconWrapper(model, phonetisaurus_binary), a wrapper
\* with an empty cache and no word set
NewLexiconWrapper(model_id) == FreshWrapper

\* a set_model that deselects the current model when the id is not known
SetModelCallDeselecting ==
    \E model_id \in ModelIds \cup {UnknownModelId} :
        /\ current_model' = (IF model_id \in DOMAIN models THEN model_id ELSE "none")
        /\ current_lexicon' = current_model'
        /\ lexicon_kind' = (IF model_id \in DOMAIN models THEN models[model_id].kind ELSE "none")
        /\ text_file' = <<>>
        /\ db_rows' = (IF model_id \in DOMAIN models THEN models[model_id].rows ELSE {})
        /\ SetWrapper(FreshWrapper)
        /\ wrapper_result' = NoCall
        /\ validation' = [validation EXCEPT !.op = "set_model", !.model_id = model_id,
                                            !.ok = model_id \in DOMAIN models]
        /\ UNCHANGED <<models, tokenized, predictorVars, callerVars, serviceVars>>

\* SpeechToPhraseValidator.set_model
SetModelCall ==
    \E model_id \in ModelIds \cup {UnknownModelId} :
        IF model_id \notin DOMAIN models
        THEN /\ validation' = [validation EXCEPT !.op = "set_model",
                                                 !.model_id = model_id, !.ok = FALSE]
             /\ UNCHANGED <<models, current_model, current_lexicon, tokenized,
                            wrapperVars, predictorVars, callerVars, serviceVars>>
        ELSE /\ current_model' = model_id
             /\ current_lexicon' = model_id
             /\ lexicon_kind' = models[model_id].kind
             /\ text_file' = <<>>
             /\ db_rows' = models[model_id].rows
             /\ SetWrapper(NewLexiconWrapper(model_id))
             /\ wrapper_result' = NoCall
             /\ validation' = [validation EXCEPT !.op = "set_model",
                                                 !.model_id = model_id, !.ok = TRUE]
             /\ UNCHANGED <<models, tokenized, predictorVars, callerVars, serviceVars>>

\* the caller receives r.result, the wrapper is left as r.st
ReturnWordResult(word, r) ==
    /\ SetWrapper(r.st)
    /\ validation' = [NoValidation EXCEPT !.op = "validate_word", !.arg = word,
                                          !.word = r.result]

ValidateWordCall ==
    /\ \E word \in ValidatorQueries : ReturnWordResult(word, ValidateWord(ThisWrapper, word))
    /\ UNCHANGED <<lexicon_kind, text_file, db_rows, wrapper_result, models, current_model,
                   current_lexicon, tokenized, predictorVars, callerVars, serviceVars>>

ReturnEntityResult(entity_name, r) ==
    /\ SetWrapper(r.st)
    /\ validation' = [NoValidation EXCEPT !.op = "validate_entity_name",
                                          !.arg = entity_name, !.entity = r.result]

ValidateEntityNameCall ==
    /\ \E entity_name \in ValidatorEntities :
           ReturnEntityResult(entity_name, ValidateEntityName(ThisWrapper, entity_name))
    /\ UNCHANGED <<lexicon_kind, text_file, db_rows, wrapper_result, models, current_model,
                   current_lexicon, tokenized, predictorVars, callerVars, serviceVars>>

\* SpeechToPhraseValidator.__init__: the first model of the directory, if
\* there is one, is selected; the directory is listed in any order
ValidatorInit ==
    /\ models \in ModelDirectories
    /\ current_model \in (IF DOMAIN models = {} THEN {"none"} ELSE DOMAIN models)
    /\ current_lexicon = current_model
    /\ lexicon_kind = (IF current_model = "none" THEN "none" ELSE models[current_model].kind)
    /\ text_file = <<>>
    /\ db_rows = (IF current_model = "none" THEN {} ELSE models[current_model].rows)
    /\ cache = FreshWrapper.cache
    /\ word_set = FreshWrapper.word_set
    /\ text_pronunciations = FreshWrapper.text_pronunciations
    /\ wrapper_result = NoCall
    /\ validation = NoValidation

ValidatorNext ==
    \/ SetModelCall
    \/ ValidateWordCall
    \/ ValidateEntityNameCall

(***************************************************************************)
(* Properties of the validator.                                            *)
(***************************************************************************)
\* validate_entity_name has returned
ValidatedEntity == validation.op = "validate_entity_name"

ModelPronunciations(m, w) == RowsInOrder({r \in models[m].rows : r.word = w})

\* prons is what the source of model m stores for a case variant of word q
StoredInModel(m, q, prons) ==
    \E r \in models[m].rows : IsCaseVariant(q, r.word) /\ prons = ModelPronunciations(m, r.word)

(***************************************************************************)
(* C12: after any sequence of set_model calls the current lexicon is bound *)
(* to the current model and to its source, and a successful set_model      *)
(* leaves it with an empty cache; every pronunciation list the cache holds *)
(* or validate_word returns is stored in the source of the current model,  *)
(* and the model_id validate_word returns is the id of the current model.  *)
(***************************************************************************)
C12_LexiconBoundToCurrentModel ==
    /\ current_lexicon = current_model
    /\ current_model # "none" =>
           /\ current_model \in DOMAIN models
           /\ lexicon_kind = models[current_model].kind
           /\ db_rows = models[current_model].rows
           /\ \A k \in DOMAIN cache :
                  cache[k] = <<>> \/ StoredInModel(current_model, k, cache[k])
    /\ (validation.op = "set_model" /\ validation.ok) =>
           /\ current_model = validation.model_id
           /\ ThisWrapper = FreshWrapper
    /\ (validation.op = "validate_word" /\ current_model # "none") =>
           /\ validation.word.model_id = current_model
           /\ \/ validation.word.pronunciations = <<>>
              \/ StoredInModel(current_model, validation.arg, validation.word.pronunciations)

\* model m1 answered a word with the pronunciations it stores, then m2, which
\* stores other pronunciations for the word, was selected
C12_Witness ==
    /\ validation.op = "set_model"
    /\ validation.ok
    /\ validation.model_id = "m2"
    /\ current_model = "m2"
    /\ validation.word.model_id = "m1"
    /\ validation.word.pronunciations # <<>>
    /\ ~StoredInModel("m2", validation.word.word, validation.word.pronunciations)
    /\ \E r \in models["m2"].rows : IsCaseVariant(validation.word.word, r.word)

Callers == {1, 2}

\* the words the two callers ask about
CallerQueries == { <<"a", "b">>, <<"a", "b", "d">> }

\* a caller that has not called yet
IdleCaller == [pc |-> "idle", word |-> <<>>, order |-> <<>>, i |-> 0, found |-> FALSE]
NoCallers == [t \in Callers |-> IdleCaller]

\* what _load_word_set of a caller reads one by one: the lines of the text
\* file, or the rows of the cursor in the order the database returns them
SourceLength(t) ==
    IF lexicon_kind = "text" THEN Len(text_file)
    ELSE IF lexicon_kind = "db" THEN Len(loading[t].order)
    ELSE 0

\* exists, line 48: if self._word_set is None
CallerEnters(t) ==
    /\ loading[t].pc = "idle"
    /\ \E word \in CallerQueries, order \in Enumerations({r.word : r \in db_rows}) :
           loading' = [loading EXCEPT ![t] =
                          [IdleCaller EXCEPT !.pc = IF word_set.loaded THEN "check" ELSE "load",
                                             !.word = word, !.order = order]]
    /\ UNCHANGED <<wrapperVars, predictorVars, validatorVars, ranked, applied, serviceVars>>

\* _load_word_set, line 181: self._word_set = set()
CallerBeginsLoad(t) ==
    /\ loading[t].pc = "load"
    /\ word_set' = [loaded |-> TRUE, words |-> {}]
    /\ loading' = [loading EXCEPT ![t].pc = IF SourceLength(t) = 0 THEN "check" ELSE "read",
                                  ![t].i = 1]
    /\ UNCHANGED <<lexicon_kind, text_file, db_rows, cache, text_pronunciations,
                   wrapper_result, predictorVars, validatorVars, ranked, applied, serviceVars>>

\* _load_from_text_file, lines 197-210, for one line; _load_from_database,
\* lines 226-227, for one row: the word is added to the set self._word_set
\* names at this moment
CallerReadsEntry(t) ==
    /\ loading[t].pc = "read"
    /\ IF lexicon_kind = "text"
       THEN LET r == LoadLines(<<text_file[loading[t].i]>>, 1, word_set.words,
                               text_pronunciations)
            IN /\ word_set' = [loaded |-> TRUE, words |-> r.words]
               /\ text_pronunciations' = r.prons
       ELSE /\ word_set' = [loaded |-> TRUE,
                            words |-> word_set.words \cup {loading[t].order[loading[t].i]}]
            /\ UNCHANGED text_pronunciations
    /\ loading' = [loading EXCEPT ![t].pc = IF loading[t].i = SourceLength(t)
                                            THEN "check" ELSE "read",
                                  ![t].i = loading[t].i + 1]
    /\ UNCHANGED <<lexicon_kind, text_file, db_rows, cache, wrapper_result,
                   predictorVars, validatorVars, ranked, applied, serviceVars>>

\* exists, lines 52-56: the variations of the word are looked for in the set
CallerChecks(t) ==
    /\ loading[t].pc = "check"
    /\ loading' = [loading EXCEPT ![t].pc = "done",
                                  ![t].found = Exists(ThisWrapper, loading[t].word).result]
    /\ UNCHANGED <<wrapperVars, predictorVars, validatorVars, ranked, applied, serviceVars>>

\* a wrapper just constructed, and two callers
CallersInit ==
    /\ WrapperInit
    /\ loading = NoCallers

CallersNext ==
    \/ \E t \in Callers : CallerEnters(t)
    \/ \E t \in Callers : CallerBeginsLoad(t)
    \/ \E t \in Callers : CallerReadsEntry(t)
    \/ \E t \in Callers : CallerChecks(t)

(***************************************************************************)
(* C13: the word set is published atomically: a caller of exists(w), for a *)
(* word w stored in the source, gets true, also while the first call of    *)
(* another caller is building the word set.                                *)
(***************************************************************************)
C13_WordSetPublishedAtomically ==
    \A t \in Callers :
        (loading[t].pc = "done" /\ loading[t].word \in StoredWords) => loading[t].found

(***************************************************************************)
(* Properties of find_similar_words.                                       *)
(***************************************************************************)
(***************************************************************************)
(* C15: find_similar_words never returns a candidate that is the target    *)
(* word itself, compared without regard to case, whatever the vocabulary   *)
(* stores (also when it stores the word with uppercase letters).           *)
(***************************************************************************)
C15_TargetIsExcluded ==
    wrapper_result.op = "find_similar_words" =>
        \A i \in 1..Len(wrapper_result.similar) :
            ~IsCaseVariant(wrapper_result.similar[i][1], wrapper_result.word)

\* the letters in the order of their code points: uppercase before lowercase
LetterOrder == UpperLetters \o LowerLetters

\* u < v as Python compares two strings of letters
RECURSIVE LexLess(_, _)
LexLess(u, v) ==
    IF v = <<>> THEN FALSE
    ELSE IF u = <<>> THEN TRUE
    ELSE IF Head(u) = Head(v) THEN LexLess(Tail(u), Tail(v))
    ELSE IndexIn(LetterOrder, Head(u)) < IndexIn(LetterOrder, Head(v))

(***************************************************************************)
(* C16: the list find_similar_words returns is in descending order of      *)
(* score, and candidates of equal score are in lexical order of the word,  *)
(* so that the order in which the vocabulary is enumerated does not show.  *)
(***************************************************************************)
C16_TiesInLexicalOrder ==
    wrapper_result.op = "find_similar_words" =>
        \A i \in 1..(Len(wrapper_result.similar) - 1) :
            LET this == wrapper_result.similar[i]
                next == wrapper_result.similar[i + 1]
            IN \/ RatLt(next[2], this[2])
               \/ RatEq(next[2], this[2]) /\ LexLess(this[1], next[1])

(***************************************************************************)
(* StandaloneLexicon.find_similar_words called on its own.                 *)
(***************************************************************************)
\* a word that starts with aba and is six letters long, the i-th of them
FillerWord(i) ==
    <<"a", "b", "a", LowerLetters[(((i - 1) \div 64) % 8) + 1],
      LowerLetters[(((i - 1) \div 8) % 8) + 1], LowerLetters[((i - 1) % 8) + 1]>>

\* a table with more words that start with ab than the candidate query
\* returns: CandidateLimit six-letter words, then the word abd
LargeTable ==
    [i \in 1..(CandidateLimit + 1) |->
        IF i <= CandidateLimit THEN [word |-> FillerWord(i), pronunciation |-> <<"a">>]
        ELSE [word |-> <<"a", "b", "d">>, pronunciation |-> <<"d">>]]

RankerTables == LexiconTables \cup {LargeTable}

\* the orders in which the database returns the distinct words: any order for
\* a small table; for the large table the order of the rows, which is also
\* the order of an index on the word
RankerOrders ==
    IF Len(lexicon) <= MaxEntries THEN Enumerations(DistinctWords)
    ELSE {[i \in 1..Len(lexicon) |-> lexicon[i].word]}

\* the max_results the callers pass
RankerMaxResults == {0, 1, DefaultMaxResults}

\* no call yet; failed: the query raised and the except branch answered
NoRanking ==
    [called |-> FALSE, target |-> <<>>, max_results |-> 0, failed |-> FALSE,
     result |-> <<>>]

StandaloneFindSimilarWordsCall ==
    /\ \E target_word \in PredictorWords, max_results \in RankerMaxResults,
          order \in RankerOrders :
           ranked' = [called |-> TRUE, target |-> target_word, max_results |-> max_results,
                      failed |-> ~db_ok,
                      result |-> FindSimilarWords(target_word, max_results, order)]
    /\ UNCHANGED <<wrapperVars, predictorVars, validatorVars, loading, applied, serviceVars>>

\* lexicon.db stops answering, and answers again
RankerDbFails ==
    /\ db_ok
    /\ db_ok' = FALSE
    /\ UNCHANGED <<lexicon, g2p_available, word_cache, g2p_cache, initialized, prediction,
                   wrapperVars, validatorVars, callerVars, serviceVars>>

RankerDbRecovers ==
    /\ ~db_ok
    /\ db_ok' = TRUE
    /\ UNCHANGED <<lexicon, g2p_available, word_cache, g2p_cache, initialized, prediction,
                   wrapperVars, validatorVars, callerVars, serviceVars>>

\* a StandaloneLexicon just constructed over a table
RankerInit ==
    /\ lexicon \in RankerTables
    /\ g2p_available = FALSE
    /\ db_ok = TRUE
    /\ word_cache = EmptyDict
    /\ g2p_cache = EmptyDict
    /\ initialized = FALSE
    /\ prediction = NoPrediction
    /\ ranked = NoRanking

RankerNext ==
    \/ StandaloneFindSimilarWordsCall
    \/ RankerDbFails
    \/ RankerDbRecovers

\* the words of the vocabulary that share the first two characters of the
\* normalized target, are not the target and clear the threshold
QualifyingCandidates(target_word) ==
    LET target_normalized == NormalizeWord(target_word)
    IN {w \in DistinctWords :
           /\ Len(target_normalized) >= 2
           /\ IsPrefix(SubSeq(target_normalized, 1, 2), Lower(w))
           /\ Lower(w) # target_normalized
           /\ RatLt(<<1, 2>>, StandaloneSimilarity(target_normalized, Lower(w)))}

(***************************************************************************)
(* C17: find_similar_words(target, max_results) returns at most            *)
(* max_results pairs; each is a known word that shares the target's first  *)
(* two characters, with its similarity, which is above 0.5; they are the   *)
(* max_results highest-scoring such words (all of them when there are      *)
(* fewer), so the list is empty exactly when no word qualifies.            *)
(***************************************************************************)
C17_TopQualifyingCandidates ==
    (ranked.called /\ ~ranked.failed) =>
        LET target_normalized == NormalizeWord(ranked.target)
            qualifying == QualifyingCandidates(ranked.target)
            returned == {ranked.result[i][1] : i \in 1..Len(ranked.result)}
        IN /\ Len(ranked.result) = Min2(ranked.max_results, Cardinality(qualifying))
           /\ Cardinality(returned) = Len(ranked.result)
           /\ returned \subseteq qualifying
           /\ \A i \in 1..Len(ranked.result) :
                  RatEq(ranked.result[i][2],
                        StandaloneSimilarity(target_normalized, Lower(ranked.result[i][1])))
           /\ \A w \in qualifying \ returned : \A i \in 1..Len(ranked.result) :
                  RatLe(StandaloneSimilarity(target_normalized, Lower(w)), ranked.result[i][2])

(***************************************************************************)
(* The pure functions, applied to arguments drawn from bounded sets:       *)
(* the two _calculate_similarity and _generate_word_recommendation.        *)
(***************************************************************************)
\* longest word the similarity is applied to
MaxWordLen == 3

SimilarityWords == UNION {[1..n -> {"a", "b"}] : n \in 0..MaxWordLen}

\* the WordPrediction objects the recommendation is generated for:
\* g2p_confidence is None (here 0) exactly when g2p_available is false, and
\* similar_words is sorted by descending score
RecommendationInputs ==
    {[NoWordPrediction EXCEPT !.in_lexicon = l, !.g2p_available = c # Zero,
                              !.g2p_confidence = c, !.similar_words = s] :
        l \in BOOLEAN,
        c \in {Zero, <<1, 2>>, <<3, 5>>, <<7, 10>>, <<4, 5>>},
        s \in {<<>>, <<<<<<"a", "b", "d">>, <<2, 3>>>>>>,
               <<<<<<"a", "b", "c", "d">>, <<5, 8>>>>, <<<<"a", "b">>, <<3, 5>>>>>>}}

\* format(x, '.0%'): the percentage nearest to x, a half rounded to even
Percent(x) ==
    LET q == (100 * x[1]) \div x[2]
        twice == 2 * ((100 * x[1]) % x[2])
    IN IF twice > x[2] \/ (twice = x[2] /\ q % 2 = 1) THEN q + 1 ELSE q

\* _generate_word_recommendation, lines 115-117: the word and the percentage
\* the suggestion quotes, those of similar_words[0]
SuggestionQuotes(p) ==
    IF GenerateWordRecommendation(p) = "suggestion"
    THEN [word |-> p.similar_words[1][1], percent |-> Percent(p.similar_words[1][2])]
    ELSE [word |-> <<>>, percent |-> 0]

\* nothing applied yet; args tells which arguments were drawn
NotApplied ==
    [args |-> "none", fn |-> "none", word1 |-> <<>>, word2 |-> <<>>, value |-> Zero,
     prediction |-> NoWordPrediction, text |-> "", quotes |-> [word |-> <<>>, percent |-> 0]]

\* LexiconWrapper._calculate_similarity(word1, word2)
WrapperCalculateSimilarityCall ==
    /\ applied.args = "words"
    /\ applied' = [applied EXCEPT !.fn = "LexiconWrapper._calculate_similarity",
                                  !.value = WrapperSimilarity(applied.word1, applied.word2)]
    /\ UNCHANGED <<wrapperVars, predictorVars, validatorVars, loading, ranked, serviceVars>>

\* StandaloneLexicon._calculate_similarity(word1, word2)
StandaloneCalculateSimilarityCall ==
    /\ applied.args = "words"
    /\ applied' = [applied EXCEPT !.fn = "StandaloneLexicon._calculate_similarity",
                                  !.value = StandaloneSimilarity(applied.word1, applied.word2)]
    /\ UNCHANGED <<wrapperVars, predictorVars, validatorVars, loading, ranked, serviceVars>>

\* SpeechToPhrasePredictor._generate_word_recommendation(prediction)
GenerateWordRecommendationCall ==
    /\ applied.args = "prediction"
    /\ applied.fn = "none"
    /\ applied' = [applied EXCEPT !.fn = "_generate_word_recommendation",
                                  !.text = GenerateWordRecommendation(applied.prediction),
                                  !.quotes = SuggestionQuotes(applied.prediction)]
    /\ UNCHANGED <<wrapperVars, predictorVars, validatorVars, loading, ranked, serviceVars>>

\* the arguments are drawn
FunctionsInit ==
    applied \in {[NotApplied EXCEPT !.args = "words", !.word1 = u, !.word2 = v] :
                    u \in SimilarityWords, v \in SimilarityWords}
                \cup {[NotApplied EXCEPT !.args = "prediction", !.prediction = p] :
                         p \in RecommendationInputs}

FunctionsNext ==
    \/ WrapperCalculateSimilarityCall
    \/ StandaloneCalculateSimilarityCall
    \/ GenerateWordRecommendationCall

\* a similarity has been computed
SimilarityApplied ==
    applied.fn \in {"LexiconWrapper._calculate_similarity",
                    "StandaloneLexicon._calculate_similarity"}

(***************************************************************************)
(* C18: the similarity of two words is 0.0 whenever one of them is empty,  *)
(* also when both are, in LexiconWrapper._calculate_similarity and in      *)
(* StandaloneLexicon._calculate_similarity.                                *)
(***************************************************************************)
C18_EmptyWordHasNoSimilarity ==
    (SimilarityApplied /\ (applied.word1 = <<>> \/ applied.word2 = <<>>)) =>
        applied.value = Zero

\* the Levenshtein distance of u and v: the fewest insertions, deletions and
\* substitutions of one character that turn u into v
RECURSIVE Levenshtein(_, _)
Levenshtein(u, v) ==
    IF u = <<>> THEN Len(v)
    ELSE IF v = <<>> THEN Len(u)
    ELSE Min3(Levenshtein(Tail(u), v) + 1,
              Levenshtein(u, Tail(v)) + 1,
              Levenshtein(Tail(u), Tail(v)) + (IF Head(u) = Head(v) THEN 0 ELSE 1))

(***************************************************************************)
(* C19: for two words that are not empty, _calculate_similarity returns    *)
(* 1 - d / max(len(word1), len(word2)), d the Levenshtein distance with    *)
(* unit costs; the value lies in [0, 1] and is 1 exactly when the words    *)
(* are equal.                                                              *)
(***************************************************************************)
C19_SimilarityIsNormalizedLevenshtein ==
    (SimilarityApplied /\ applied.word1 # <<>> /\ applied.word2 # <<>>) =>
        LET max_len == Max2(Len(applied.word1), Len(applied.word2))
            d == Levenshtein(applied.word1, applied.word2)
        IN /\ applied.value = Rat(max_len - d, max_len)
           /\ RatLe(Zero, applied.value)
           /\ RatLe(applied.value, One)
           /\ RatEq(applied.value, One) <=> applied.word1 = applied.word2

\* abb and ba: one deletion and one substitution, similarity 1/3
C19_Witness ==
    /\ applied.fn = "LexiconWrapper._calculate_similarity"
    /\ applied.word1 = <<"a", "b", "b">>
    /\ applied.word2 = <<"b", "a">>
    /\ applied.value = <<1, 3>>

(***************************************************************************)
(* C20: the recommendation of a WordPrediction is chosen by strict         *)
(* priority: in the lexicon, "recognized perfectly"; else a G2P confidence *)
(* above 0.7, "estimated, high confidence"; else a G2P confidence above    *)
(* 0.5, "estimated, verify by voice test"; else, with similar words, the   *)
(* suggestion that names the best match and its similarity; else           *)
(* "problematic, rename recommended".  Every prediction gets exactly one   *)
(* of the five.                                                            *)
(***************************************************************************)
C20_RecommendationByPriority ==
    applied.fn = "_generate_word_recommendation" =>
        LET p == applied.prediction
            high == RatLt(<<7, 10>>, p.g2p_confidence)
            medium == RatLt(<<1, 2>>, p.g2p_confidence)
        IN /\ applied.text \in {"optimal", "good", "medium", "suggestion", "problematic"}
           /\ applied.text = "optimal" <=> p.in_lexicon
           /\ applied.text = "good" <=> (~p.in_lexicon /\ high)
           /\ applied.text = "medium" <=> (~p.in_lexicon /\ ~high /\ medium)
           /\ applied.text = "suggestion" <=>
                  (~p.in_lexicon /\ ~medium /\ p.similar_words # <<>>)
           /\ applied.text = "problematic" <=>
                  (~p.in_lexicon /\ ~medium /\ p.similar_words = <<>>)
           /\ applied.text = "suggestion" =>
                  /\ applied.quotes.word = p.similar_words[1][1]
                  /\ \A i \in 1..Len(p.similar_words) :
                         RatLe(p.similar_words[i][2], p.similar_words[1][2])
                  /\ applied.quotes.percent * p.similar_words[1][2][2] * 2
                         - 200 * p.similar_words[1][2][1] \in
                             (-p.similar_words[1][2][2])..p.similar_words[1][2][2]

\* a word not in the lexicon with a G2P confidence of 0.7 and similar words:
\* the G2P text of the third rank wins over the suggestion
C20_Witness ==
    /\ applied.fn = "_generate_word_recommendation"
    /\ ~applied.prediction.in_lexicon
    /\ applied.prediction.g2p_confidence = <<7, 10>>
    /\ applied.prediction.similar_words # <<>>
    /\ applied.text = "medium"

(***************************************************************************)
(* Properties of the suggested alternatives of predict_entity.             *)
(***************************************************************************)
\* the positions of the tokens of tier POOR or UNKNOWN that have a similar
\* word, in token order
WeakTokens(word_predictions) ==
    LET Weak(i) == /\ word_predictions[i].confidence \in {"poor", "unknown"}
                   /\ word_predictions[i].similar_words # <<>>
    IN SelectSeq([i \in 1..Len(word_predictions) |-> i], Weak)

\* the kinds of advice generated after the substitutions
AdviceKinds(word_predictions) ==
    (IF Len(word_predictions) > 2 THEN <<"abbreviate">> ELSE <<>>)
    \o (IF \E i \in 1..Len(word_predictions) :
               \E k \in 1..Len(word_predictions[i].word) : word_predictions[i].word[k] = "_"
        THEN <<"underscore">> ELSE <<>>)

(***************************************************************************)
(* C21: predict_entity returns at most 3 suggested alternatives, and they  *)
(* are the first ones in the order of generation: the substitutions of the *)
(* tokens in token order, then the advice.                                 *)
(***************************************************************************)
C21_AlternativesAreCappedPrefix ==
    Returned("predict_entity") =>
        LET wps == prediction.entity.word_predictions
            alts == prediction.entity.suggested_alternatives
            weak == WeakTokens(wps)
            kinds == AdviceKinds(wps)
        IN /\ Len(alts) <= 3
           /\ Len(alts) = Min2(3, Len(weak) + Len(kinds))
           /\ \A k \in 1..Len(alts) :
                  IF k <= Len(weak)
                  THEN /\ alts[k].kind = "substitute"
                       /\ alts[k].old = wps[weak[k]].word
                       /\ alts[k].new = wps[weak[k]].similar_words[1][1]
                  ELSE alts[k].kind = kinds[k - Len(weak)]

\* three tokens are substituted and the advice to abbreviate is cut off
C21_Witness ==
    /\ Returned("predict_entity")
    /\ Len(WeakTokens(prediction.entity.word_predictions)) = 3
    /\ Len(prediction.entity.word_predictions) = 3
    /\ Len(prediction.entity.suggested_alternatives) = 3
    /\ prediction.entity.suggested_alternatives[3].old = <<"a", "b", "g">>

\* an underscore of the name stands between two tokens
UnderscoreSeparates(entity_name) ==
    \E k \in 1..Len(entity_name) :
        /\ entity_name[k] = "_"
        /\ \E i \in 1..(k - 1) : entity_name[i] \notin Separators
        /\ \E j \in (k + 1)..Len(entity_name) : entity_name[j] \notin Separators

\* an alternative of the kind is among the ones returned
Suggests(kind) ==
    \E k \in 1..Len(prediction.entity.suggested_alternatives) :
        prediction.entity.suggested_alternatives[k].kind = kind

(***************************************************************************)
(* C22: when an underscore separates tokens of the entity name the advice  *)
(* to avoid underscores is generated, and when there are more than 2       *)
(* tokens the advice to abbreviate is; each is in the result unless the    *)
(* cap of 3 cut it off.                                                    *)
(***************************************************************************)
C22_AdviceIsGenerated ==
    (/\ Returned("predict_entity")
     /\ prediction.entity.word_predictions # <<>>
     /\ Len(prediction.entity.suggested_alternatives) < MaxAlternatives) =>
        /\ UnderscoreSeparates(prediction.arg) => Suggests("underscore")
        /\ Len(prediction.entity.word_predictions) > 2 => Suggests("abbreviate")

\* the half of C22 about the abbreviation alone
C22_AbbreviationIsGenerated ==
    (/\ Returned("predict_entity")
     /\ Len(prediction.entity.word_predictions) > 2
     /\ Len(prediction.entity.suggested_alternatives) < MaxAlternatives) =>
        Suggests("abbreviate")

\* the tokens of the name with their places: <<first, last>> of every run of
\* characters that are no separators
RECURSIVE TokenSpans(_, _)
TokenSpans(entity_name, from) ==
    IF from > Len(entity_name) THEN <<>>
    ELSE IF entity_name[from] \in Separators THEN TokenSpans(entity_name, from + 1)
    ELSE LET last == CHOOSE e \in from..Len(entity_name) :
                         /\ \A k \in from..e : entity_name[k] \notin Separators
                         /\ e = Len(entity_name) \/ entity_name[e + 1] \in Separators
         IN <<<<from, last>>>> \o TokenSpans(entity_name, last + 1)

\* the name with the characters first..last replaced by new
ReplaceSpan(entity_name, span, new) ==
    SubSeq(entity_name, 1, span[1] - 1) \o new
    \o SubSeq(entity_name, span[2] + 1, Len(entity_name))

(***************************************************************************)
(* C23: for every token of tier POOR or UNKNOWN that has a similar word,   *)
(* the alternative generated is the entity name with exactly that token    *)
(* replaced by its best match, every other token and separator unchanged,  *)
(* whatever the letter case of the name and also when the token's text     *)
(* occurs inside another token.                                            *)
(***************************************************************************)
C23_ExactlyTheTokenIsReplaced ==
    Returned("predict_entity") =>
        LET wps == prediction.entity.word_predictions
            alts == prediction.entity.suggested_alternatives
            weak == WeakTokens(wps)
            spans == TokenSpans(prediction.arg, 1)
        IN \A k \in 1..Len(alts) :
               k <= Len(weak) =>
                   alts[k].text = ReplaceSpan(prediction.arg, spans[weak[k]],
                                              wps[weak[k]].similar_words[1][1])

\* the same for the names in lower case
C23_HoldsForLowerCaseNames ==
    (Returned("predict_entity") /\ prediction.arg = Lower(prediction.arg)) =>
        C23_ExactlyTheTokenIsReplaced

(***************************************************************************)
(* Properties of the loading of a text lexicon.                            *)
(***************************************************************************)
\* the entries of the text file that hold a word and at least one phoneme
WellFormedEntries == SelectSeq(TextEntries(text_file), LAMBDA e : Len(e) > 1)

\* the words of the entries that hold a word and nothing else
BareWords ==
    {TextEntries(text_file)[i][1] : i \in {k \in 1..Len(TextEntries(text_file)) :
                                              Len(TextEntries(text_file)[k]) = 1}}

(***************************************************************************)
(* C24: loading a text lexicon skips every malformed line.  A line with a  *)
(* word and no phonemes adds no word to the known-word set and no          *)
(* pronunciation, so exists stays false and lookup stays empty for the     *)
(* word; blank lines and '#' comments are ignored; the lines after such a  *)
(* line are still loaded.                                                  *)
(***************************************************************************)
C24_MalformedLinesAreSkipped ==
    (lexicon_kind = "text" /\ word_set.loaded) =>
        /\ word_set.words = {WellFormedEntries[i][1] : i \in 1..Len(WellFormedEntries)}
        /\ DOMAIN text_pronunciations = word_set.words
        /\ \A w \in word_set.words :
               text_pronunciations[w] = EntryPronunciations(WellFormedEntries, w)
        /\ \A w \in BareWords :
               (/\ wrapper_result.word = w
                /\ \A i \in 1..Len(WellFormedEntries) :
                       ~IsCaseVariant(w, WellFormedEntries[i][1])) =>
                   /\ wrapper_result.op = "exists" => ~wrapper_result.found
                   /\ wrapper_result.op = "lookup" => wrapper_result.prons = <<>>

\* the part of C24 about blank lines, comments and the lines that follow:
\* every entry of the file is loaded, a line without phonemes as a word
\* with an empty pronunciation
C24_EveryEntryIsLoaded ==
    (lexicon_kind = "text" /\ word_set.loaded) =>
        /\ word_set.words = StoredWords
        /\ DOMAIN text_pronunciations = StoredWords
        /\ \A w \in StoredWords : text_pronunciations[w] = StoredPronunciations(w)

(***************************************************************************)
(* C25: a WordPrediction has tier EXCELLENT only if in_lexicon is true; a  *)
(* word absent from the lexicon never reaches a score of 0.95 or more      *)
(* through its G2P confidence and the similarity boost.                    *)
(***************************************************************************)
C25_ExcellentOnlyInLexicon ==
    \A wp \in ReturnedWordPredictions :
        ~wp.in_lexicon =>
            /\ wp.confidence # "excellent"
            /\ RatLt(wp.confidence_score, <<95, 100>>)

(***************************************************************************)
(* C26: membership and lookup agree.  In every reachable state of one      *)
(* LexiconWrapper and for every word w, exists(w) is true if and only if   *)
(* lookup(w) returns a list that is not empty; a word stored with zero     *)
(* pronunciations is not known to either.  Stated on the answer of the     *)
(* last call and the answer the other operation gives in the same state.   *)
(***************************************************************************)
C26_ExistsIffLookupNonEmpty ==
    /\ wrapper_result.op = "lookup" =>
           (wrapper_result.prons # <<>> <=> Exists(ThisWrapper, wrapper_result.word).result)
    /\ wrapper_result.op = "exists" =>
           (wrapper_result.found <=> Lookup(ThisWrapper, wrapper_result.word).result # <<>>)

(***************************************************************************)
(* C27: set_model with a model id the model manager does not know returns  *)
(* False and leaves the current model and the current lexicon, its cache   *)
(* included, as they were; validate_word answers after the failed call     *)
(* exactly as it did before: with the model and the source unchanged, its  *)
(* answer over the wrapper left by the call is its answer over the wrapper *)
(* before the call.                                                        *)
(***************************************************************************)
C27_FailedSetModelChangesNothing ==
    [][(validation'.op = "set_model" /\ validation'.model_id \notin DOMAIN models) =>
           /\ ~validation'.ok
           /\ current_model' = current_model
           /\ current_lexicon' = current_lexicon
           /\ <<lexicon_kind, text_file, db_rows>>' = <<lexicon_kind, text_file, db_rows>>
           /\ ThisWrapper' = ThisWrapper
           /\ \A word \in ValidatorQueries :
                  ValidateWord(ThisWrapper', word) = ValidateWord(ThisWrapper, word)
      ]_<<wrapperVars, predictorVars, validatorVars, callerVars, serviceVars>>

\* a known word was validated under model m1, its pronunciations are in the
\* cache, and set_model of an unknown id has just failed
C27_Witness ==
    /\ validation.op = "set_model"
    /\ validation.model_id = UnknownModelId
    /\ ~validation.ok
    /\ current_model = "m1"
    /\ validation.word.status = "known"
    /\ validation.word.word \in DOMAIN cache
    /\ cache[validation.word.word] # <<>>

C28_NotGuessedWithAModel ==
    (ValidatedEntity /\ current_lexicon # "none") =>
        validation.entity.overall_status # "guessed"

(***************************************************************************)
(* The predictor singleton and the model downloader: coroutines of one     *)
(* event loop call get_predictor; the first one constructs the predictor   *)
(* and initializes it, which downloads the model when it is not on disk.   *)
(* A coroutine gives way to the others only at an await of download_file.  *)
(***************************************************************************)
Coroutines == {1, 2}

\* most calls of get_predictor by one coroutine
MaxCalls == 2

\* create_lexicon_db_from_txt: return word_count > 100
ConversionMinimum == 100
\* verify_lexicon_db: if word_count < 1000: return False
VerifyMinimum == 1000
\* create_minimal_test_database: len(test_words)
MinimalTestWords == 133

\* the entries create_lexicon_db_from_txt finds in the dictionary downloaded;
\* Unreadable is a file it raises on
Unreadable == 0 - 1
DictionarySizes == {Unreadable, 0, ConversionMinimum, ConversionMinimum + 1,
                    VerifyMinimum - 1, VerifyMinimum}

\* the files of the model directory
NoFiles == [dictionary |-> FALSE, lexicon_db |-> FALSE, lexicon_words |-> 0,
            model_info |-> FALSE]
DownloadedFiles == [dictionary |-> FALSE, lexicon_db |-> TRUE, lexicon_words |-> VerifyMinimum,
                    model_info |-> TRUE]

\* a coroutine that has not called get_predictor
IdleCoroutine == [pc |-> "idle", calls |-> 0, initialized |-> FALSE]

\* no download_model call yet
NoDownload == [started |-> FALSE, dictionary |-> "none", converted |-> FALSE,
               minimal |-> "none", verified |-> FALSE, returned |-> "none"]

\* SpeechToPhraseModelDownloader.is_model_downloaded
IsModelDownloaded(files) == files.lexicon_db /\ files.model_info

\* SpeechToPhraseModelDownloader.verify_lexicon_db
VerifyLexiconDb(files) == files.lexicon_db /\ files.lexicon_words >= VerifyMinimum

\* SpeechToPhraseModelDownloader.create_lexicon_db_from_txt: what it returns
CreateLexiconDbFromTxt(words) == words > ConversionMinimum

\* get_predictor returns _predictor_instance to coroutine c
ReturnInstance(c, instance) ==
    getting' = [getting EXCEPT ![c].pc = "returned",
                               ![c].initialized = (instance = "initialized")]

\* get_predictor: the singleton exists and is returned as it is, or it is
\* constructed and initialize runs up to its first await
GetPredictorCall(c) ==
    /\ getting[c].pc = "idle"
    /\ getting[c].calls < MaxCalls
    /\ IF predictor_instance # "none"
       THEN /\ getting' = [getting EXCEPT ![c].pc = "returned", ![c].calls = @ + 1,
                                          ![c].initialized = (predictor_instance = "initialized")]
            /\ UNCHANGED <<predictor_instance, model_files, download>>
       ELSE IF IsModelDownloaded(model_files)
       THEN /\ predictor_instance' = "initialized"
            /\ getting' = [getting EXCEPT ![c].pc = "returned", ![c].calls = @ + 1,
                                          ![c].initialized = TRUE]
            /\ UNCHANGED <<model_files, download>>
       ELSE /\ predictor_instance' = "uninitialized"
            /\ getting' = [getting EXCEPT ![c].pc = "download_dictionary", ![c].calls = @ + 1]
            /\ download' = [NoDownload EXCEPT !.started = TRUE]
            /\ UNCHANGED model_files
    /\ UNCHANGED <<wrapperVars, predictorVars, validatorVars, callerVars>>

\* download_model: download_file failed for every URL; download_model and
\* initialize return False and get_predictor returns the instance
DictionaryDownloadFails(c) ==
    /\ getting[c].pc = "download_dictionary"
    /\ download' = [download EXCEPT !.dictionary = "failed", !.returned = "false"]
    /\ ReturnInstance(c, predictor_instance)
    /\ UNCHANGED <<predictor_instance, model_files>>
    /\ UNCHANGED <<wrapperVars, predictorVars, validatorVars, callerVars>>

\* download_model from the conversion to the verification, lines 487-503:
\* the files it leaves and whether it goes on
ConvertAndVerify(words, minimal_ok) ==
    LET converted == CreateLexiconDbFromTxt(words)
        minimal == IF converted THEN "none" ELSE IF minimal_ok THEN "created" ELSE "failed"
        files == [model_files EXCEPT
                     !.dictionary = TRUE,
                     !.lexicon_db = (words # Unreadable \/ minimal = "created"),
                     !.lexicon_words = IF minimal = "created" THEN MinimalTestWords
                                       ELSE IF words = Unreadable THEN 0 ELSE words]
    IN [files |-> files, converted |-> converted, minimal |-> minimal,
        verified |-> minimal # "failed" /\ VerifyLexiconDb(files)]

\* download_model: the dictionary came (words entries in it); the conversion,
\* the fallback and the verification run, then the download of g2p.fst awaits
DictionaryDownloaded(c) ==
    /\ getting[c].pc = "download_dictionary"
    /\ \E words \in DictionarySizes, minimal_ok \in BOOLEAN :
           LET r == ConvertAndVerify(words, minimal_ok)
           IN /\ model_files' = r.files
              /\ download' = [download EXCEPT !.dictionary = "downloaded",
                                              !.converted = r.converted,
                                              !.minimal = r.minimal,
                                              !.verified = r.verified,
                                              !.returned = IF r.verified THEN "none" ELSE "false"]
              /\ IF r.verified
                 THEN getting' = [getting EXCEPT ![c].pc = "download_g2p"]
                 ELSE ReturnInstance(c, predictor_instance)
    /\ UNCHANGED predictor_instance
    /\ UNCHANGED <<wrapperVars, predictorVars, validatorVars, callerVars>>

\* download_model: the download of g2p.fst ended (its failure is not fatal);
\* model_info.json is written, download_model returns True, initialize loads
\* the lexicon and get_predictor returns
G2pDownloadEnds(c) ==
    /\ getting[c].pc = "download_g2p"
    /\ model_files' = [model_files EXCEPT !.dictionary = FALSE, !.model_info = TRUE]
    /\ download' = [download EXCEPT !.returned = "true"]
    /\ predictor_instance' = "initialized"
    /\ ReturnInstance(c, "initialized")
    /\ UNCHANGED <<wrapperVars, predictorVars, validatorVars, callerVars>>

\* the caller goes on and may call get_predictor again
CallerGoesOn(c) ==
    /\ getting[c].pc = "returned"
    /\ getting[c].calls < MaxCalls
    /\ getting' = [getting EXCEPT ![c].pc = "idle"]
    /\ UNCHANGED <<predictor_instance, model_files, download>>
    /\ UNCHANGED <<wrapperVars, predictorVars, validatorVars, callerVars>>

\* the process starts: no singleton; the model is on disk or it is not
ServiceInit ==
    /\ predictor_instance = "none"
    /\ model_files \in {NoFiles, DownloadedFiles}
    /\ getting = [c \in Coroutines |-> IdleCoroutine]
    /\ download = NoDownload

ServiceNext ==
    \/ \E c \in Coroutines : GetPredictorCall(c)
    \/ \E c \in Coroutines : DictionaryDownloadFails(c)
    \/ \E c \in Coroutines : DictionaryDownloaded(c)
    \/ \E c \in Coroutines : G2pDownloadEnds(c)
    \/ \E c \in Coroutines : CallerGoesOn(c)

(***************************************************************************)
(* C29: every predictor get_predictor returns is initialized, also when    *)
(* two callers call it while the first initialization awaits the download, *)
(* and a failed first initialization is tried again by the next call.      *)
(***************************************************************************)
C29_ReturnedPredictorIsInitialized ==
    \A c \in Coroutines : getting[c].pc = "returned" => getting[c].initialized

\* with the model on disk every predictor returned is initialized
C29_HoldsWhenModelIsOnDisk ==
    ~download.started => C29_ReturnedPredictorIsInitialized

(***************************************************************************)
(* C30: when the dictionary is downloaded, its conversion to lexicon.db    *)
(* fails and create_minimal_test_database succeeds, download_model returns *)
(* True and writes model_info.json: the model is available with the        *)
(* minimal test database as its lexicon.                                   *)
(***************************************************************************)
C30_MinimalDatabaseCompletesDownload ==
    (/\ download.dictionary = "downloaded"
     /\ ~download.converted
     /\ download.minimal = "created") =>
        /\ download.returned = "true"
        /\ model_files.model_info
        /\ IsModelDownloaded(model_files)

\* a download whose conversion succeeds with enough words completes
C30_VerifiedDownloadCompletes ==
    (download.verified /\ download.returned # "none") =>
        (download.returned = "true" /\ IsModelDownloaded(model_files))

(***************************************************************************)
(* The specifications: each looks at one part of the program and leaves    *)
(* the rest idle.                                                          *)
(***************************************************************************)
vars == <<wrapperVars, predictorVars, validatorVars, callerVars, serviceVars>>

\* the predictor is not looked at
PredictorIdle ==
    /\ lexicon = <<>>
    /\ g2p_available = FALSE
    /\ db_ok = TRUE
    /\ word_cache = EmptyDict
    /\ g2p_cache = EmptyDict
    /\ initialized = FALSE
    /\ prediction = NoPrediction

\* the wrapper is not looked at
WrapperIdle ==
    /\ lexicon_kind = "none"
    /\ text_file = <<>>
    /\ db_rows = {}
    /\ cache = EmptyDict
    /\ word_set = FreshWrapper.word_set
    /\ text_pronunciations = EmptyDict
    /\ wrapper_result = NoCall

\* no entity name is tokenized
TokenizerIdle == tokenized = NotTokenized

\* the validator is not looked at
ValidatorIdle ==
    /\ models = EmptyDict
    /\ current_model = "none"
    /\ current_lexicon = "none"
    /\ validation = NoValidation

\* no coroutine calls get_predictor
ServiceIdle ==
    /\ predictor_instance = "none"
    /\ model_files = NoFiles
    /\ getting = [c \in Coroutines |-> IdleCoroutine]
    /\ download = NoDownload

\* no caller is looked at
CallersIdle ==
    /\ loading = NoCallers
    /\ ranked = NoRanking
    /\ applied = NotApplied

WrapperOnly == WrapperInit /\ PredictorIdle /\ TokenizerIdle /\ ValidatorIdle /\ CallersIdle /\ ServiceIdle

PredictorOnly == PredictorInit /\ WrapperIdle /\ TokenizerIdle /\ ValidatorIdle /\ CallersIdle /\ ServiceIdle

TokenizerOnly == TokenizerInit /\ WrapperIdle /\ PredictorIdle /\ ValidatorIdle /\ CallersIdle /\ ServiceIdle

ValidatorOnly == ValidatorInit /\ PredictorIdle /\ TokenizerIdle /\ CallersIdle /\ ServiceIdle

\* no similarity call and no function applied
RankerIdle == ranked = NoRanking
FunctionsIdle == applied = NotApplied

FunctionsOnly == FunctionsInit /\ WrapperIdle /\ PredictorIdle /\ TokenizerIdle /\ ValidatorIdle /\ loading = NoCallers /\ RankerIdle /\ ServiceIdle

RankerOnly == RankerInit /\ WrapperIdle /\ TokenizerIdle /\ ValidatorIdle /\ loading = NoCallers /\ FunctionsIdle /\ ServiceIdle

CallersOnly == CallersInit /\ PredictorIdle /\ TokenizerIdle /\ ValidatorIdle /\ RankerIdle /\ FunctionsIdle /\ ServiceIdle

SpecWrapper == WrapperOnly /\ [][WrapperNext]_vars

SpecPredictor == PredictorOnly /\ [][PredictorNext]_vars

SpecTokenizer == TokenizerOnly /\ [][TokenizerNext]_vars

SpecValidator == ValidatorOnly /\ [][ValidatorNext]_vars

SpecCallers == CallersOnly /\ [][CallersNext]_vars

SpecRanker == RankerOnly /\ [][RankerNext]_vars

SpecFunctions == FunctionsOnly /\ [][FunctionsNext]_vars

ServiceOnly == ServiceInit /\ WrapperIdle /\ PredictorIdle /\ TokenizerIdle /\ ValidatorIdle /\ CallersIdle

SpecService == ServiceOnly /\ [][ServiceNext]_vars

====
